---- MODULE Spec2Model ----
(***************************************************************************)
(* Noctua document core: the paginated (PDF) backend PortableDocument, its *)
(* resumable thumbnail pipeline and page navigation, and the dispatcher    *)
(* DocumentContent in front of it.                                         *)
(*                                                                         *)
(* Sources: src/src/domain/document/types/portable.rs (transform-state     *)
(* backend), src/src/app/document/portable.rs (same pipeline with the disk *)
(* thumbnail cache wired in), src/src/domain/document/core/content.rs      *)
(* (dispatcher).                                                           *)
(*                                                                         *)
(* Lengths are kept in quarter points and scales in quarters, so that the  *)
(* f64 products of the code (size * 2.0, size * 0.25) and their `as i32`   *)
(* truncation are exact integer arithmetic here.                           *)
(***************************************************************************)
EXTENDS Integers, Sequences, FiniteSets, TLC

\* ------------------------------------------------------------------------
\* Bounds of the model
\* ------------------------------------------------------------------------

\* Largest page count of an opened document.
MaxPages == 3

\* Largest page count of a document whose navigation and transforms are
\* explored (every state there carries two full-size rasters).
MaxNavPages == 2

\* At most this many pages of a document are malformed (fail to render).
MaxBadPages == 1

\* At most this many pages have a thumbnail on disk when the document opens.
MaxCachedPages == 1

\* Largest value of the page-index type (usize / u32), scaled down: the
\* arithmetic of the code wraps at UsizeMax + 1.
UsizeMax == 7

\* The largest fine rotation, in whole degrees either way, a document
\* starts from: more than one full turn.
MaxFineDeg == 450

\* Largest value of the crop coordinates' type (u32), scaled down.
U32Max == 15

\* Largest side tiny_skia::Pixmap::new accepts, scaled down.
PixmapLimit == 8

\* ------------------------------------------------------------------------
\* Program constants
\* ------------------------------------------------------------------------

\* PDF_RENDER_QUALITY = 2.0, in quarters.
PDF_RENDER_QUALITY_X4 == 8

\* PDF_THUMBNAIL_SIZE = 0.25, in quarters.
PDF_THUMBNAIL_SIZE_X4 == 1

\* One RGBA pixel [0, 0, 0, 0]: fully transparent.
TransparentPixel == 0

\* constant.rs
ROTATION_STEP == 90

FULL_ROTATION == 360

MIN_PIXMAP_SIZE == 1

\* ------------------------------------------------------------------------
\* Option / Result values
\* ------------------------------------------------------------------------

None == [tag |-> "None"]

Some(v) == [tag |-> "Some", val |-> v]

Ok(v) == [tag |-> "Ok", val |-> v]

Err(e) == [tag |-> "Err", err |-> e]

Unit == "()"

Panic == [tag |-> "Panic"]

\* ------------------------------------------------------------------------
\* State
\* ------------------------------------------------------------------------

VARIABLES
    kind,               \* DocumentContent variant: "Raster", "Vector", "Portable"
    native_width,       \* RasterDocument / VectorDocument .native_width
    native_height,      \* RasterDocument / VectorDocument .native_height
    current_scale,      \* VectorDocument.current_scale, in quarters
    vector_size,        \* VectorDocument <<.width, .height>>
    num_pages,          \* PortableDocument.num_pages
    page_index,         \* PortableDocument.page_index
    transform,          \* .transform of the backend (TransformState, VectorTransform)
    rendered,           \* the backend's raster: PortableDocument.rendered,
                        \* VectorDocument.rendered, RasterDocument.document
    handle,             \* .handle of the backend (ImageHandle)
    thumbnail_cache,    \* PortableDocument.thumbnail_cache: Option<Vec<ImageHandle>>
    disk_cache_enabled, \* the build wires cache::load_thumbnail / save_thumbnail
    disk_writable,      \* cache::save_thumbnail succeeds
    disk_cache,         \* disk thumbnail cache of source_path: page -> Option<handle>
    bad_pages,          \* pages of the PDF whose render returns Err
    call,               \* the last call made on the document and what it returned
    driver,             \* the per-tick thumbnail driver (caller side)
    selection           \* CropSelection of the crop view (caller side)

vars == <<kind, num_pages, page_index, transform, rendered, handle,
          thumbnail_cache, disk_cache_enabled, disk_writable, disk_cache,
          bad_pages, call, driver, selection,
          native_width, native_height, current_scale, vector_size>>

\* The fields only the raster and vector backends have.
single_page == <<native_width, native_height, current_scale, vector_size>>

env == <<kind, num_pages, disk_cache_enabled, disk_writable, bad_pages>>

\* ------------------------------------------------------------------------
\* Images and handles
\* ------------------------------------------------------------------------

\* A DynamicImage: px[y][x] for 0 <= x < w, 0 <= y < h.
Image(w, h, px) ==
    [w |-> w, h |-> h, px |-> px]

\* ImageHandle::from_rgba(width, height, pixels)
from_rgba(width, height, pixels) ==
    [width |-> width, height |-> height, pixels |-> pixels]

\* img.to_rgba8().into_raw(): the pixels row by row.
create_image_handle_from_image(img) ==
    from_rgba(img.w, img.h,
              [i \in 1..(img.w * img.h) |->
                  img.px[(i - 1) \div img.w][(i - 1) % img.w]])

\* image::imageops::flip_horizontal
flip_horizontal(img) ==
    Image(img.w, img.h,
          [y \in 0..(img.h - 1) |->
              [x \in 0..(img.w - 1) |-> img.px[y][img.w - 1 - x]]])

\* image::imageops::flip_vertical
flip_vertical(img) ==
    Image(img.w, img.h,
          [y \in 0..(img.h - 1) |->
              [x \in 0..(img.w - 1) |-> img.px[img.h - 1 - y][x]]])

\* image::imageops::rotate90: the pixel at (x, y) goes to (h - 1 - y, x).
rotate90(img) ==
    Image(img.h, img.w,
          [y \in 0..(img.w - 1) |->
              [x \in 0..(img.h - 1) |-> img.px[img.h - 1 - x][y]]])

\* image::imageops::rotate180
rotate180(img) ==
    Image(img.w, img.h,
          [y \in 0..(img.h - 1) |->
              [x \in 0..(img.w - 1) |-> img.px[img.h - 1 - y][img.w - 1 - x]]])

\* image::imageops::rotate270: the pixel at (x, y) goes to (y, w - 1 - x).
rotate270(img) ==
    Image(img.h, img.w,
          [y \in 0..(img.w - 1) |->
              [x \in 0..(img.h - 1) |-> img.px[x][img.w - 1 - y]]])

Min(a, b) == IF a < b THEN a ELSE b

\* image::imageops::crop_imm(..).to_image(): the view is first cut down to
\* what the image holds past (x, y), then copied out.
crop_imm(img, x, y, crop_width, crop_height) ==
    LET cx == Min(x, img.w)
        cy == Min(y, img.h)
        ch == Min(crop_height, img.h - cy)
        cw == Min(crop_width, img.w - cx)
    IN  Image(cw, ch,
              [j \in 0..(ch - 1) |-> [i \in 0..(cw - 1) |-> img.px[cy + j][cx + i]]])

\* DynamicImage::dimensions
dimensions(img) == <<img.w, img.h>>

apply_flip(img, direction) ==
    IF direction = "Horizontal" THEN flip_horizontal(img) ELSE flip_vertical(img)

\* The placeholder of a page that failed to render.
PlaceholderHandle == from_rgba(1, 1, <<TransparentPixel>>)

\* ------------------------------------------------------------------------
\* The parsed PDF (PopplerDocument): page geometry and page content
\* ------------------------------------------------------------------------

\* page.get_size(), in quarter points: pages of 4 x 5, 4.25 x 4.75, 4.5 x 4.5 ... pt
PageWidthQ(p) == 16 + p

PageHeightQ(p) == 20 - p

\* The colour page p shows at the source pixel (sx, sy) of its unrotated
\* rendering; never transparent, the surface is painted white first.
PagePixel(p, sx, sy) == 1000 * (p + 1) + 32 * sy + sx

\* Rotation enum and RotationMode::Standard(rotation)
Rotations == {0, 90, 180, 270}

Standard(deg) == [mode |-> "Standard", deg |-> deg]

to_degrees(rotation) == rotation.deg

FlipDirections == {"Horizontal", "Vertical"}

IdentityTransform == [rotation |-> Standard(0), flip_h |-> FALSE, flip_v |-> FALSE]

\* The source pixel cairo draws at (x, y) of a w x h surface after
\* translate(center) . rotate(deg) . translate(-page center).
RotatedSource(deg, x, y, w, h) ==
    CASE deg = 90  -> <<y, w - 1 - x>>
      [] deg = 180 -> <<w - 1 - x, h - 1 - y>>
      [] deg = 270 -> <<h - 1 - y, x>>
      [] OTHER     -> <<x, y>>

\* What cairo draws for a page that renders: the surface of
\* render_page_at_scale, read back as an image.
PageImage(page_idx, rotation, scale_x4) ==
    LET page_width == PageWidthQ(page_idx)
        page_height == PageHeightQ(page_idx)
        rotation_degrees == to_degrees(rotation)
        width == IF rotation_degrees = 90 \/ rotation_degrees = 270
                 THEN page_height ELSE page_width
        height == IF rotation_degrees = 90 \/ rotation_degrees = 270
                  THEN page_width ELSE page_height
        scaled_width == (width * scale_x4) \div 16
        scaled_height == (height * scale_x4) \div 16
    IN  Image(scaled_width, scaled_height,
              [y \in 0..(scaled_height - 1) |->
                  [x \in 0..(scaled_width - 1) |->
                      LET s == RotatedSource(rotation_degrees, x, y,
                                             scaled_width, scaled_height)
                      IN  PagePixel(page_idx, s[1], s[2])]])

\* PortableDocument::render_page_at_scale(document, page_index, rotation, scale):
\* Err when get_page finds no page or the page cannot be drawn or encoded.
render_page_at_scale(page_idx, rotation, scale_x4) ==
    IF page_idx >= num_pages \/ page_idx \in bad_pages
    THEN Err("render")
    ELSE Ok(PageImage(page_idx, rotation, scale_x4))

\* PortableDocument::render_page
render_page(page_idx, rotation) ==
    render_page_at_scale(page_idx, rotation, PDF_RENDER_QUALITY_X4)

\* ------------------------------------------------------------------------
\* Disk thumbnail cache, keyed by (source_path, page); one source_path here
\* ------------------------------------------------------------------------

Pages == 0..(num_pages - 1)

IoLoad(page) == [ev |-> "load", page |-> page]

IoRender(page) == [ev |-> "render", page |-> page]

IoSave(page) == [ev |-> "save", page |-> page]

\* cache::load_thumbnail(&source_path, page)
load_thumbnail(disk, page) ==
    IF page \in DOMAIN disk THEN disk[page] ELSE None

\* cache::save_thumbnail(&source_path, page, &img)
save_thumbnail(disk, page, img) ==
    IF disk_writable /\ page \in DOMAIN disk
    THEN [disk EXCEPT ![page] = Some(create_image_handle_from_image(img))]
    ELSE disk

\* ------------------------------------------------------------------------
\* Thumbnail pipeline
\* ------------------------------------------------------------------------

\* domain/document/types/portable.rs: the disk cache is disabled (TODO).
load_or_generate_thumbnail_uncached(disk, page) ==
    LET r == render_page_at_scale(page, Standard(0), PDF_THUMBNAIL_SIZE_X4)
    IN  IF r.tag = "Ok"
        THEN [handle |-> create_image_handle_from_image(r.val),
              disk |-> disk, io |-> <<IoRender(page)>>]
        ELSE [handle |-> PlaceholderHandle,
              disk |-> disk, io |-> <<IoRender(page)>>]

\* app/document/portable.rs: load from disk, else render and save.
load_or_generate_thumbnail_cached(disk, page) ==
    LET hit == load_thumbnail(disk, page)
        r == render_page_at_scale(page, Standard(0), PDF_THUMBNAIL_SIZE_X4)
    IN  IF hit.tag = "Some"
        THEN [handle |-> hit.val, disk |-> disk, io |-> <<IoLoad(page)>>]
        ELSE IF r.tag = "Ok"
        THEN [handle |-> create_image_handle_from_image(r.val),
              disk |-> save_thumbnail(disk, page, r.val),
              io |-> <<IoLoad(page), IoRender(page), IoSave(page)>>]
        ELSE [handle |-> PlaceholderHandle,
              disk |-> disk, io |-> <<IoLoad(page), IoRender(page)>>]

load_or_generate_thumbnail(disk, page) ==
    IF disk_cache_enabled
    THEN load_or_generate_thumbnail_cached(disk, page)
    ELSE load_or_generate_thumbnail_uncached(disk, page)

\* Mutant: the store is emptied on every call, not only created when absent.
init_thumbnail_cache_resets(cache) == Some(<<>>)

\* PortableDocument::init_thumbnail_cache
init_thumbnail_cache(cache) ==
    IF cache.tag = "None" THEN Some(<<>>) ELSE cache

\* PortableDocument::thumbnails_loaded (the count)
thumbnails_loaded(cache) ==
    IF cache.tag = "Some" THEN Len(cache.val) ELSE 0

\* PortableDocument::get_thumbnail_handle / MultiPageThumbnails::get_thumbnail
get_thumbnail(cache, page) ==
    IF cache.tag = "Some" /\ page < Len(cache.val)
    THEN Some(cache.val[page + 1]) ELSE None

\* Mutant: the comparison is strict.
thumbnails_ready_strict(cache) ==
    cache.tag = "Some" /\ Len(cache.val) > num_pages

\* MultiPageThumbnails::thumbnails_ready (domain): is_some_and(len >= num_pages)
thumbnails_ready(cache) ==
    cache.tag = "Some" /\ Len(cache.val) >= num_pages

\* PortableDocument::thumbnails_ready (app): map(len >= page_count).unwrap_or(false)
thumbnails_ready_app(cache) ==
    IF cache.tag = "Some" THEN Len(cache.val) >= num_pages ELSE FALSE

\* page + 1 in the width of the page-index type (wrapping build).
wrapping_succ(page) == (page + 1) % (UsizeMax + 1)

\* Mutant: the last page still hands back a next page (next <= num_pages).
generate_thumbnail_page_next_le(cache, disk, page) ==
    LET cache0 == init_thumbnail_cache(cache)
        should_generate == page >= Len(cache0.val) /\ page < num_pages
        g == load_or_generate_thumbnail(disk, page)
        next == wrapping_succ(page)
    IN  [cache |-> IF should_generate
                   THEN Some(Append(cache0.val, g.handle)) ELSE cache0,
         disk |-> IF should_generate THEN g.disk ELSE disk,
         io |-> IF should_generate THEN g.io ELSE <<>>,
         next |-> IF next <= num_pages THEN Some(next) ELSE None]

\* Mutant: "not done" is read off the store's length, not off the argument.
generate_thumbnail_page_next_by_len(cache, disk, page) ==
    LET cache0 == init_thumbnail_cache(cache)
        should_generate == page >= Len(cache0.val) /\ page < num_pages
        g == load_or_generate_thumbnail(disk, page)
        cache1 == IF should_generate
                  THEN Some(Append(cache0.val, g.handle)) ELSE cache0
        next == wrapping_succ(page)
    IN  [cache |-> cache1,
         disk |-> IF should_generate THEN g.disk ELSE disk,
         io |-> IF should_generate THEN g.io ELSE <<>>,
         next |-> IF Len(cache1.val) < num_pages THEN Some(next) ELSE None]

\* Mutant: a page the store already covers is generated again.
generate_thumbnail_page_regenerates(cache, disk, page) ==
    LET cache0 == init_thumbnail_cache(cache)
        should_generate == page < num_pages
        g == load_or_generate_thumbnail(disk, page)
        next == wrapping_succ(page)
    IN  [cache |-> IF should_generate
                   THEN Some(Append(cache0.val, g.handle)) ELSE cache0,
         disk |-> IF should_generate THEN g.disk ELSE disk,
         io |-> IF should_generate THEN g.io ELSE <<>>,
         next |-> IF next < num_pages THEN Some(next) ELSE None]

\* Mutant: a page that fails to render is skipped, nothing is appended.
generate_thumbnail_page_skips_failed(cache, disk, page) ==
    LET cache0 == init_thumbnail_cache(cache)
        should_generate == page >= Len(cache0.val) /\ page < num_pages
        g == load_or_generate_thumbnail(disk, page)
        next == wrapping_succ(page)
    IN  [cache |-> IF should_generate /\ g.handle # PlaceholderHandle
                   THEN Some(Append(cache0.val, g.handle)) ELSE cache0,
         disk |-> IF should_generate THEN g.disk ELSE disk,
         io |-> IF should_generate THEN g.io ELSE <<>>,
         next |-> IF next < num_pages THEN Some(next) ELSE None]

\* PortableDocument::generate_thumbnail_page(&mut self, page) -> Option<usize>,
\* as a function of the store and the disk cache it is called on.
generate_thumbnail_page(cache, disk, page) ==
    LET cache0 == init_thumbnail_cache(cache)
        should_generate == page >= Len(cache0.val) /\ page < num_pages
        g == load_or_generate_thumbnail(disk, page)
        next == wrapping_succ(page)
    IN  [cache |-> IF should_generate
                   THEN Some(Append(cache0.val, g.handle)) ELSE cache0,
         disk |-> IF should_generate THEN g.disk ELSE disk,
         io |-> IF should_generate THEN g.io ELSE <<>>,
         next |-> IF next < num_pages THEN Some(next) ELSE None]

RECURSIVE generate_all_loop(_, _, _, _)
\* for page in 0..self.num_pages { generate_thumbnail_page(self, page); }
generate_all_loop(cache, disk, io, page) ==
    IF page >= num_pages
    THEN [cache |-> cache, disk |-> disk, io |-> io]
    ELSE LET r == generate_thumbnail_page(cache, disk, page)
         IN  generate_all_loop(r.cache, r.disk, io \o r.io, page + 1)

\* Mutant: the loop starts at page 1.
generate_all_thumbnails_from_one(cache, disk) ==
    IF thumbnails_ready(cache)
    THEN [cache |-> cache, disk |-> disk, io |-> <<>>]
    ELSE generate_all_loop(init_thumbnail_cache(cache), disk, <<>>, 1)

\* MultiPageThumbnails::generate_all_thumbnails / PortableDocument::generate_thumbnails
generate_all_thumbnails(cache, disk) ==
    IF thumbnails_ready(cache)
    THEN [cache |-> cache, disk |-> disk, io |-> <<>>]
    ELSE generate_all_loop(init_thumbnail_cache(cache), disk, <<>>, 0)

\* DocumentContent::thumbnails_ready
DocumentContent_thumbnails_ready ==
    IF kind = "Portable" THEN thumbnails_ready(thumbnail_cache) ELSE FALSE

\* DocumentContent::thumbnails_loaded
DocumentContent_thumbnails_loaded ==
    IF kind = "Portable" THEN thumbnails_loaded(thumbnail_cache) ELSE 0

\* ------------------------------------------------------------------------
\* Rendering the current page
\* ------------------------------------------------------------------------

\* PortableDocument::rerender: on Err the error is logged and rendered/handle stay.
rerender(page_idx, tf, old_rendered, old_handle) ==
    LET r == render_page(page_idx, tf.rotation)
        flipped_h == IF tf.flip_h THEN apply_flip(r.val, "Horizontal") ELSE r.val
        flipped_v == IF tf.flip_v THEN apply_flip(flipped_h, "Vertical") ELSE flipped_h
    IN  IF r.tag = "Ok"
        THEN [rendered |-> flipped_v,
              handle |-> create_image_handle_from_image(flipped_v)]
        ELSE [rendered |-> old_rendered, handle |-> old_handle]

\* Mutant: the range check is off by one (page > num_pages).
go_to_page_off_by_one(page) ==
    IF page > num_pages
    THEN Err("page out of range")
    ELSE Ok(page)

\* MultiPage::go_to_page on the portable backend: the new page_index, or the error.
go_to_page(page) ==
    IF page >= num_pages
    THEN Err("page out of range")
    ELSE Ok(page)

\* ------------------------------------------------------------------------
\* The document as one value: the fields of the live backend
\* ------------------------------------------------------------------------

Doc ==
    [kind |-> kind, page_index |-> page_index, transform |-> transform,
     rendered |-> rendered, handle |-> handle,
     native_width |-> native_width, native_height |-> native_height,
     current_scale |-> current_scale, vector_size |-> vector_size]

\* What an operation hands back: the document it leaves, its return value
\* and the renders it attempted.
Outcome(doc, ret, io) == [doc |-> doc, ret |-> ret, io |-> io]

\* ------------------------------------------------------------------------
\* Raster backend
\* ------------------------------------------------------------------------

\* The picture ImageReader decodes from the file.
DecodedPixel(x, y) == 10 * (y + 1) + x

DecodedImage == Image(3, 2, [y \in 0..1 |-> [x \in 0..2 |-> DecodedPixel(x, y)]])

\* x + width on u32 in a build without overflow checks.
wrapping_add(a, b) == (a + b) % (U32Max + 1)

\* Transformable::rotate on the raster backend: the buffer is turned by the
\* difference between the requested and the stored rotation.
RasterDocument_rotate(d, rotation) ==
    LET current_deg == to_degrees(d.transform.rotation)
        new_deg == rotation
        diff_deg == (new_deg - current_deg + 360) % 360
        document == CASE diff_deg = 0 -> d.rendered
                      [] diff_deg = 90 -> rotate90(d.rendered)
                      [] diff_deg = 180 -> rotate180(d.rendered)
                      [] diff_deg = 270 -> rotate270(d.rendered)
    IN  [d EXCEPT !.rendered = document,
                  !.transform = [@ EXCEPT !.rotation = Standard(rotation)],
                  !.handle = create_image_handle_from_image(document)]

\* Transformable::flip on the raster backend
RasterDocument_flip(d, direction) ==
    LET document == apply_flip(d.rendered, direction)
        tf == IF direction = "Horizontal"
              THEN [d.transform EXCEPT !.flip_h = ~d.transform.flip_h]
              ELSE [d.transform EXCEPT !.flip_v = ~d.transform.flip_v]
    IN  [d EXCEPT !.rendered = document, !.transform = tf,
                  !.handle = create_image_handle_from_image(document)]

\* CropRegion::is_valid: both sides are positive. No crop in the code calls it.
CropRegion_is_valid(crop_width, crop_height) == crop_width > 0 /\ crop_height > 0

\* The bounds test of RasterDocument::crop and crop_to_image,
\* `x + width > img_width || y + height > img_height` on u32: "panic" where
\* a build with overflow checks stops, else whether the test rejects.
crop_bounds_test(img, x, y, crop_width, crop_height, checked) ==
    IF checked /\ x + crop_width > U32Max THEN "panic"
    ELSE IF wrapping_add(x, crop_width) > img.w THEN "reject"
    ELSE IF checked /\ y + crop_height > U32Max THEN "panic"
    ELSE IF wrapping_add(y, crop_height) > img.h THEN "reject"
    ELSE "accept"

\* RasterDocument::crop in a build with (checked) or without overflow checks.
RasterDocument_crop(d, x, y, crop_width, crop_height, checked) ==
    LET test == crop_bounds_test(d.rendered, x, y, crop_width, crop_height, checked)
        cropped == crop_imm(d.rendered, x, y, crop_width, crop_height)
    IN  CASE test = "panic" -> Outcome(d, Panic, <<>>)
          [] test = "reject" -> Outcome(d, Err("Crop rectangle out of bounds"), <<>>)
          [] OTHER ->
               Outcome([d EXCEPT !.rendered = cropped,
                                 !.native_width = crop_width,
                                 !.native_height = crop_height,
                                 !.transform = IdentityTransform,
                                 !.handle = create_image_handle_from_image(cropped)],
                       Ok(Unit), <<>>)

\* RasterDocument::crop_to_image: the document is not touched.
RasterDocument_crop_to_image(d, x, y, crop_width, crop_height, checked) ==
    LET test == crop_bounds_test(d.rendered, x, y, crop_width, crop_height, checked)
    IN  CASE test = "panic" -> Outcome(d, Panic, <<>>)
          [] test = "reject" -> Outcome(d, Err("Crop rectangle out of bounds"), <<>>)
          [] OTHER -> Outcome(d, Ok(crop_imm(d.rendered, x, y, crop_width, crop_height)),
                              <<>>)

\* ------------------------------------------------------------------------
\* Vector backend
\* ------------------------------------------------------------------------

\* VectorTransform::default()
VectorTransformDefault == [rotation |-> 0, flip_h |-> FALSE, flip_v |-> FALSE]

\* What resvg paints at (x, y) when the scene is drawn at a scale.
ScenePixel(x, y, scale_x4) == 100 * scale_x4 + 10 * y + x

\* (native as f32 * scale).ceil() as u32, the scale in quarters.
ceil_scaled(native, scale_x4) == (native * scale_x4 + 3) \div 4

Max(a, b) == IF a > b THEN a ELSE b

\* render_document(document, native_width, native_height, scale, transform)
render_document(native_w, native_h, scale_x4, tf) ==
    LET w == Max(ceil_scaled(native_w, scale_x4), MIN_PIXMAP_SIZE)
        h == Max(ceil_scaled(native_h, scale_x4), MIN_PIXMAP_SIZE)
        pixmap == Image(w, h, [y \in 0..(h - 1) |->
                                 [x \in 0..(w - 1) |-> ScenePixel(x, y, scale_x4)]])
        flipped_h == IF tf.flip_h THEN flip_horizontal(pixmap) ELSE pixmap
        flipped_v == IF tf.flip_v THEN flip_vertical(flipped_h) ELSE flipped_h
        image == CASE tf.rotation = 90 -> rotate90(flipped_v)
                   [] tf.rotation = 180 -> rotate180(flipped_v)
                   [] tf.rotation = 270 -> rotate270(flipped_v)
                   [] OTHER -> flipped_v
    IN  IF w > PixmapLimit \/ h > PixmapLimit
        THEN Err("Failed to create pixmap")
        ELSE Ok(image)

\* Mutant: the new raster is stored without rebuilding the handle.
VectorDocument_rerender_stale_handle(d) ==
    LET r == render_document(d.native_width, d.native_height, d.current_scale,
                             d.transform)
    IN  IF r.tag = "Ok"
        THEN [d EXCEPT !.rendered = r.val,
                       !.vector_size = dimensions(r.val)]
        ELSE d

\* VectorDocument::rerender: a failed render is dropped without a trace.
VectorDocument_rerender(d) ==
    LET r == render_document(d.native_width, d.native_height, d.current_scale,
                             d.transform)
    IN  IF r.tag = "Ok"
        THEN [d EXCEPT !.rendered = r.val,
                       !.vector_size = dimensions(r.val),
                       !.handle = create_image_handle_from_image(r.val)]
        ELSE d

\* i16::rem_euclid
rem_euclid(a, b) == a % b

\* VectorDocument::rotate_cw
VectorDocument_rotate_cw(d) ==
    VectorDocument_rerender(
        [d EXCEPT !.transform =
            [@ EXCEPT !.rotation = rem_euclid(@ + ROTATION_STEP, FULL_ROTATION)]])

\* Mutant: the remainder keeps the sign of the dividend (% instead of
\* rem_euclid).
VectorDocument_rotate_ccw_rem(d) ==
    VectorDocument_rerender(
        [d EXCEPT !.transform =
            [@ EXCEPT !.rotation =
                IF @ - ROTATION_STEP >= 0
                THEN (@ - ROTATION_STEP) % FULL_ROTATION
                ELSE -((ROTATION_STEP - @) % FULL_ROTATION)]])

\* VectorDocument::rotate_ccw
VectorDocument_rotate_ccw(d) ==
    VectorDocument_rerender(
        [d EXCEPT !.transform =
            [@ EXCEPT !.rotation = rem_euclid(@ - ROTATION_STEP, FULL_ROTATION)]])

\* VectorDocument::flip_horizontal
VectorDocument_flip_horizontal(d) ==
    VectorDocument_rerender(
        [d EXCEPT !.transform = [@ EXCEPT !.flip_h = ~d.transform.flip_h]])

\* VectorDocument::flip_vertical
VectorDocument_flip_vertical(d) ==
    VectorDocument_rerender(
        [d EXCEPT !.transform = [@ EXCEPT !.flip_v = ~d.transform.flip_v]])

\* (self.current_scale - scale).abs() < f32::EPSILON, on scales that are
\* whole quarters: the difference is below a quarter only when it is zero.
scale_unchanged(current, scale_x4) ==
    (IF current >= scale_x4 THEN current - scale_x4 ELSE scale_x4 - current) < 1

\* Mutant: the scale is not compared with the current one; every call renders.
render_at_scale_always(d, scale_x4) ==
    LET r == render_document(d.native_width, d.native_height, scale_x4, d.transform)
    IN  IF r.tag = "Ok"
        THEN Outcome([d EXCEPT !.current_scale = scale_x4,
                               !.rendered = r.val,
                               !.vector_size = dimensions(r.val),
                               !.handle = create_image_handle_from_image(r.val)],
                     TRUE, <<scale_x4>>)
        ELSE Outcome(d, FALSE, <<scale_x4>>)

\* VectorDocument::render_at_scale(scale) -> bool; io holds the scale when
\* render_document was called.
render_at_scale(d, scale_x4) ==
    LET r == render_document(d.native_width, d.native_height, scale_x4, d.transform)
    IN  IF scale_unchanged(d.current_scale, scale_x4)
        THEN Outcome(d, FALSE, <<>>)
        ELSE IF r.tag = "Ok"
        THEN Outcome([d EXCEPT !.current_scale = scale_x4,
                               !.rendered = r.val,
                               !.vector_size = dimensions(r.val),
                               !.handle = create_image_handle_from_image(r.val)],
                     TRUE, <<scale_x4>>)
        ELSE Outcome(d, FALSE, <<scale_x4>>)

\* ------------------------------------------------------------------------
\* Portable backend, as operations on the document value
\* ------------------------------------------------------------------------

\* Transformable::rotate on the portable backend
PortableDocument_rotate(d, rotation) ==
    LET tf == [d.transform EXCEPT !.rotation = Standard(rotation)]
        img == rerender(d.page_index, tf, d.rendered, d.handle)
    IN  [d EXCEPT !.transform = tf, !.rendered = img.rendered, !.handle = img.handle]

\* Transformable::flip on the portable backend
PortableDocument_flip(d, direction) ==
    LET tf == IF direction = "Horizontal"
              THEN [d.transform EXCEPT !.flip_h = ~d.transform.flip_h]
              ELSE [d.transform EXCEPT !.flip_v = ~d.transform.flip_v]
        img == rerender(d.page_index, tf, d.rendered, d.handle)
    IN  [d EXCEPT !.transform = tf, !.rendered = img.rendered, !.handle = img.handle]

\* Mutant: a rectangle reaching past an edge is rejected, as the raster
\* backend does, instead of being cut down.
PortableDocument_crop_strict(d, x, y, crop_w, crop_h) ==
    LET img_width == d.rendered.w
        img_height == d.rendered.h
        cropped == crop_imm(d.rendered, x, y, crop_w, crop_h)
    IN  IF x + crop_w > img_width \/ y + crop_h > img_height
        THEN Outcome(d, Err("outside rendered bounds"), <<>>)
        ELSE IF crop_w = 0 \/ crop_h = 0
        THEN Outcome(d, Err("zero width or height"), <<>>)
        ELSE Outcome([d EXCEPT !.rendered = cropped,
                               !.handle = create_image_handle_from_image(cropped)],
                     Ok(Unit), <<>>)

\* Mutant: an origin outside the raster is pulled back to its last column
\* or row instead of being rejected.
PortableDocument_crop_clamps_origin(d, x, y, crop_w, crop_h) ==
    LET img_width == d.rendered.w
        img_height == d.rendered.h
        cx == Min(x, img_width - 1)
        cy == Min(y, img_height - 1)
        crop_width == Min(crop_w, img_width - cx)
        crop_height == Min(crop_h, img_height - cy)
        cropped == crop_imm(d.rendered, cx, cy, crop_width, crop_height)
    IN  IF crop_width = 0 \/ crop_height = 0
        THEN Outcome(d, Err("zero width or height"), <<>>)
        ELSE Outcome([d EXCEPT !.rendered = cropped,
                               !.handle = create_image_handle_from_image(cropped)],
                     Ok(Unit), <<>>)

\* PortableDocument::crop: the origin must lie inside the raster, the size
\* is cut down to what is left past it.
PortableDocument_crop(d, x, y, crop_w, crop_h) ==
    LET img_width == d.rendered.w
        img_height == d.rendered.h
        crop_width == Min(crop_w, img_width - x)
        crop_height == Min(crop_h, img_height - y)
        cropped == crop_imm(d.rendered, x, y, crop_width, crop_height)
    IN  IF x >= img_width \/ y >= img_height
        THEN Outcome(d, Err("outside rendered bounds"), <<>>)
        ELSE IF crop_width = 0 \/ crop_height = 0
        THEN Outcome(d, Err("zero width or height"), <<>>)
        ELSE Outcome([d EXCEPT !.rendered = cropped,
                               !.handle = create_image_handle_from_image(cropped)],
                     Ok(Unit), <<>>)

\* ------------------------------------------------------------------------
\* Rotation modes and the dispatcher's transforms
\* ------------------------------------------------------------------------

Fine(deg) == [mode |-> "Fine", deg |-> deg]

\* f32::round of deg / 90.0: to the nearest whole number, halves away from zero.
round_quarter_turns(deg) ==
    IF deg >= 0 THEN (2 * deg + 90) \div 180 ELSE -((2 * (-deg) + 90) \div 180)

\* Rust's % on i16: the remainder takes the sign of the dividend.
rem(a, b) == IF a >= 0 THEN a % b ELSE -((-a) % b)

\* RotationMode::rotate_cw: Standard(d) steps to Standard((d + 90) mod 360);
\* Fine(deg) is first rounded to the nearest quarter turn.
RotationMode_rotate_cw(mode) ==
    IF mode.mode = "Standard"
    THEN Standard((mode.deg + 90) % 360)
    ELSE Standard((round_quarter_turns(mode.deg) * 90 + 90) % 360)

\* RotationMode::rotate_ccw
RotationMode_rotate_ccw(mode) ==
    IF mode.mode = "Standard"
    THEN Standard((mode.deg - 90) % 360)
    ELSE Standard((round_quarter_turns(mode.deg) * 90 - 90) % 360)

\* The match of DocumentContent::rotate_cw / rotate_ccw that turns a
\* normalized degree value into a Rotation.
rotation_from_normalized(normalized) ==
    CASE normalized = 0 -> 0
      [] normalized = 90 -> 90
      [] normalized = 180 -> 180
      [] normalized = 270 -> 270
      [] OTHER -> 0

\* Mutant: the stored degrees are stepped as they are, without rounding a
\* fine rotation to a quarter turn first.
rotate_cw_target_unrounded(mode) ==
    (to_degrees(mode) + ROTATION_STEP) % FULL_ROTATION

\* The Rotation DocumentContent::rotate_cw hands to the backend.
rotate_cw_target(mode) ==
    LET new_rotation_mode == RotationMode_rotate_cw(mode)
    IN  IF new_rotation_mode.mode = "Standard"
        THEN new_rotation_mode.deg
        ELSE rotation_from_normalized(
                 rem(round_quarter_turns(new_rotation_mode.deg) * 90, 360))

\* The Rotation DocumentContent::rotate_ccw hands to the backend.
rotate_ccw_target(mode) ==
    LET new_rotation_mode == RotationMode_rotate_ccw(mode)
    IN  IF new_rotation_mode.mode = "Standard"
        THEN new_rotation_mode.deg
        ELSE rotation_from_normalized(
                 rem(round_quarter_turns(new_rotation_mode.deg) * 90 + 360, 360))

\* Transformable::rotate on DocumentContent
DocumentContent_rotate(d, rotation) ==
    IF d.kind = "Raster"
    THEN RasterDocument_rotate(d, rotation)
    ELSE PortableDocument_rotate(d, rotation)

\* DocumentContent::rotate_cw; the vector backend steps its own i16 rotation.
DocumentContent_rotate_cw(d) ==
    IF d.kind = "Vector"
    THEN VectorDocument_rotate_cw(d)
    ELSE DocumentContent_rotate(d, rotate_cw_target(d.transform.rotation))

\* DocumentContent::rotate_ccw
DocumentContent_rotate_ccw(d) ==
    IF d.kind = "Vector"
    THEN VectorDocument_rotate_ccw(d)
    ELSE DocumentContent_rotate(d, rotate_ccw_target(d.transform.rotation))

\* Transformable::flip on DocumentContent
DocumentContent_flip(d, direction) ==
    CASE d.kind = "Raster" -> RasterDocument_flip(d, direction)
      [] d.kind = "Portable" -> PortableDocument_flip(d, direction)
      [] OTHER -> IF direction = "Horizontal"
                  THEN VectorDocument_flip_horizontal(d)
                  ELSE VectorDocument_flip_vertical(d)

\* DocumentContent::dimensions
DocumentContent_dimensions(d) ==
    IF d.kind = "Vector" THEN d.vector_size ELSE dimensions(d.rendered)

\* Mutant: a document without pages reports no page at all.
DocumentContent_page_count_zero ==
    IF kind = "Portable" THEN num_pages ELSE 0

\* DocumentContent::page_count
DocumentContent_page_count ==
    IF kind = "Portable" THEN num_pages ELSE 1

\* DocumentContent::current_page
DocumentContent_current_page ==
    IF kind = "Portable" THEN page_index ELSE 0

\* DocumentContent::get_thumbnail(page) -> DocResult<Option<ImageHandle>>
DocumentContent_get_thumbnail(page) ==
    IF kind = "Portable" THEN Ok(get_thumbnail(thumbnail_cache, page)) ELSE Ok(None)

\* DocumentContent::get_thumbnail_handle(page) -> Option<ImageHandle>
DocumentContent_get_thumbnail_handle(page) ==
    IF kind = "Portable" THEN get_thumbnail(thumbnail_cache, page) ELSE None

\* DocumentContent::all_thumbnails_loaded
DocumentContent_all_thumbnails_loaded ==
    IF kind = "Portable" THEN thumbnails_loaded(thumbnail_cache) >= num_pages ELSE FALSE

\* ------------------------------------------------------------------------
\* Kind detection: paths are sequences of characters
\* ------------------------------------------------------------------------

\* A byte sequence that is not valid UTF-8, standing where a character would.
InvalidUtf8 == "<FF>"

\* char::to_ascii_lowercase on the characters used here
ascii_lower_char(c) ==
    CASE c = "S" -> "s" [] c = "V" -> "v" [] c = "G" -> "g" [] c = "Z" -> "z"
      [] c = "P" -> "p" [] c = "D" -> "d" [] c = "F" -> "f" [] c = "N" -> "n"
      [] OTHER -> c

\* char::to_lowercase: like the ASCII mapping, and letters outside ASCII too.
lower_char(c) == IF c = "É" THEN "é" ELSE ascii_lower_char(c)

\* str::to_lowercase
to_lowercase(str) == [i \in 1..Len(str) |-> lower_char(str[i])]

\* str::to_ascii_lowercase
to_ascii_lowercase(str) == [i \in 1..Len(str) |-> ascii_lower_char(str[i])]

\* OsStr::to_str: None unless the bytes are valid UTF-8.
to_str(os_str) ==
    IF \E i \in 1..Len(os_str) : os_str[i] = InvalidUtf8 THEN None ELSE Some(os_str)

\* Path::file_name of a path that does not end in a separator or in "..":
\* what follows the last separator.
file_name(path) ==
    LET seps == {i \in 1..Len(path) : path[i] = "/"}
        start == IF seps = {} THEN 1
                 ELSE (CHOOSE i \in seps : \A j \in seps : j <= i) + 1
    IN  SubSeq(path, start, Len(path))

\* Path::extension: what follows the last dot of the file name; None when
\* the file name has no dot or only a leading one.
extension(path) ==
    LET name == file_name(path)
        dots == {i \in 1..Len(name) : name[i] = "."}
        last == CHOOSE i \in dots : \A j \in dots : j <= i
    IN  IF dots = {} THEN None
        ELSE IF last = 1 THEN None
        ELSE Some(SubSeq(name, last + 1, Len(name)))

\* image::ImageFormat::from_extension as the code calls it: the extension
\* is lowercased (ASCII) and looked up among the formats the library knows.
ImageFormat_from_extension(ext_os, registry) ==
    LET ext_str == to_str(ext_os)
    IN  IF ext_str.tag = "Some" /\ to_ascii_lowercase(ext_str.val) \in registry
        THEN Some(to_ascii_lowercase(ext_str.val))
        ELSE None

\* image::ImageFormat::from_path as the code calls it
ImageFormat_from_path(path, registry) ==
    LET ext_os == extension(path)
        format == IF ext_os.tag = "Some"
                  THEN ImageFormat_from_extension(ext_os.val, registry) ELSE None
    IN  IF format.tag = "Some" THEN Ok(format.val) ELSE Err("unsupported format")

Svg == <<"s", "v", "g">>

Svgz == <<"s", "v", "g", "z">>

Pdf == <<"p", "d", "f">>

\* Mutant: the extension is compared as it is written.
DocumentKind_from_path_case_sensitive(path, registry) ==
    LET ext_os == extension(path)
        ext_str == IF ext_os.tag = "Some" THEN to_str(ext_os.val) ELSE None
        ext == ext_str.val
    IN  IF ext_str.tag = "None" THEN None
        ELSE IF ext = Svg \/ ext = Svgz THEN Some("Vector")
        ELSE IF ext = Pdf THEN Some("Portable")
        ELSE IF ImageFormat_from_path(path, registry).tag = "Ok" THEN Some("Raster")
        ELSE None

\* DocumentKind::from_path (domain), built with the vector and the portable
\* feature.
DocumentKind_from_path(path, registry) ==
    LET ext_os == extension(path)
        ext_str == IF ext_os.tag = "Some" THEN to_str(ext_os.val) ELSE None
        ext == to_lowercase(ext_str.val)
    IN  IF ext_str.tag = "None" THEN None
        ELSE IF ext = Svg \/ ext = Svgz THEN Some("Vector")
        ELSE IF ext = Pdf THEN Some("Portable")
        ELSE IF ImageFormat_from_path(path, registry).tag = "Ok" THEN Some("Raster")
        ELSE None

\* DocumentKind::from_path (app)
DocumentKind_from_path_app(path, registry) ==
    LET ext_os == extension(path)
        ext_str == IF ext_os.tag = "Some" THEN to_str(ext_os.val) ELSE None
        ext_lower == to_ascii_lowercase(ext_str.val)
    IN  IF ext_str.tag = "None" THEN None
        ELSE IF ext_lower = Pdf THEN Some("Portable")
        ELSE IF ext_lower = Svg THEN Some("Vector")
        ELSE IF ImageFormat_from_extension(ext_os.val, registry).tag = "Some"
        THEN Some("Raster")
        ELSE None

\* ------------------------------------------------------------------------
\* Initial states: a document just opened
\* ------------------------------------------------------------------------

Kinds == {"Raster", "Vector", "Portable"}

\* Arguments a caller may pass as a page index: every page in range, the
\* page count itself (the first index out of range) and the largest value
\* of the type.
PageArgs == (0..num_pages) \cup {UsizeMax}

\* The last call as its caller saw it: the operation, its argument, what
\* it returned (ret; next is the page generate_thumbnail_page handed back),
\* the cache and render steps it took (io) and by how much the thumbnail
\* count grew.
Call(op, arg, ret, next, io, grew) ==
    [op |-> op, arg |-> arg, ret |-> ret, next |-> next, io |-> io, grew |-> grew]

NoCall == Call("open", 0, Ok(Unit), None, <<>>, 0)

\* ------------------------------------------------------------------------
\* Crop selection of the crop view (app/view/crop/selection.rs). Pointer
\* coordinates and regions are f32 pixels; here they are counted in half
\* pixels, so 1.0 is 2 and a region is <<x, y, w, h>>.
\* ------------------------------------------------------------------------

\* const MIN_SIZE: f32 = 1.0, in half pixels
MIN_SIZE_X2 == 2

DragHandles ==
    {"None", "TopLeft", "TopRight", "BottomLeft", "BottomRight",
     "Top", "Bottom", "Left", "Right", "Move"}

\* CropSelection::default()
CropSelection_default ==
    [region |-> None, is_dragging |-> FALSE, drag_handle |-> "None",
     drag_start |-> None, drag_start_region |-> None]

\* CropSelection::start_new_selection
CropSelection_start_new_selection(s, x, y) ==
    [region |-> Some(<<x, y, 0, 0>>), is_dragging |-> TRUE, drag_handle |-> "None",
     drag_start |-> Some(<<x, y>>), drag_start_region |-> None]

\* CropSelection::start_handle_drag
CropSelection_start_handle_drag(s, drag_handle, x, y) ==
    [s EXCEPT !.is_dragging = TRUE,
              !.drag_handle = drag_handle,
              !.drag_start = Some(<<x, y>>),
              !.drag_start_region = s.region]

\* CropSelection::resize_region
resize_region(drag_handle, rx, ry, rw, rh, dx, dy, img_width, img_height) ==
    LET right == rx + rw
        bottom == ry + rh
        left_rx == Min(Max(rx + dx, 0), right - MIN_SIZE_X2)
        top_ry == Min(Max(ry + dy, 0), bottom - MIN_SIZE_X2)
        new_right == Min(Max(right + dx, rx + MIN_SIZE_X2), img_width)
        new_bottom == Min(Max(bottom + dy, ry + MIN_SIZE_X2), img_height)
    IN  CASE drag_handle = "TopLeft" ->
               <<left_rx, top_ry,
                 Min(Max(right - left_rx, MIN_SIZE_X2), img_width - left_rx),
                 Min(Max(bottom - top_ry, MIN_SIZE_X2), img_height - top_ry)>>
          [] drag_handle = "TopRight" ->
               <<rx, top_ry,
                 Max(new_right - rx, MIN_SIZE_X2),
                 Min(Max(bottom - top_ry, MIN_SIZE_X2), img_height - top_ry)>>
          [] drag_handle = "BottomLeft" ->
               <<left_rx, ry,
                 Max(right - left_rx, MIN_SIZE_X2),
                 Max(new_bottom - ry, MIN_SIZE_X2)>>
          [] drag_handle = "BottomRight" ->
               <<rx, ry,
                 Max(new_right - rx, MIN_SIZE_X2),
                 Max(new_bottom - ry, MIN_SIZE_X2)>>
          [] drag_handle = "Top" ->
               <<rx, top_ry, rw, Max(bottom - top_ry, MIN_SIZE_X2)>>
          [] drag_handle = "Bottom" ->
               <<rx, ry, rw, Max(new_bottom - ry, MIN_SIZE_X2)>>
          [] drag_handle = "Left" ->
               <<left_rx, ry, Max(right - left_rx, MIN_SIZE_X2), rh>>
          [] drag_handle = "Right" ->
               <<rx, ry, Max(new_right - rx, MIN_SIZE_X2), rh>>
          [] OTHER -> <<rx, ry, rw, rh>>

\* CropSelection::update_drag
CropSelection_update_drag(s, x, y, img_width, img_height) ==
    IF ~s.is_dragging THEN s
    ELSE IF s.drag_handle = "None"
    THEN IF s.drag_start.tag = "Some"
         THEN LET start_x == s.drag_start.val[1]
                  start_y == s.drag_start.val[2]
                  min_x == Max(Min(start_x, x), 0)
                  min_y == Max(Min(start_y, y), 0)
                  max_x == Min(Max(start_x, x), img_width)
                  max_y == Min(Max(start_y, y), img_height)
              IN  [s EXCEPT !.region =
                       Some(<<min_x, min_y, max_x - min_x, max_y - min_y>>)]
         ELSE s
    ELSE IF s.drag_start.tag = "Some" /\ s.drag_start_region.tag = "Some"
    THEN LET start_x == s.drag_start.val[1]
             start_y == s.drag_start.val[2]
             rx == s.drag_start_region.val[1]
             ry == s.drag_start_region.val[2]
             rw == s.drag_start_region.val[3]
             rh == s.drag_start_region.val[4]
             dx == x - start_x
             dy == y - start_y
         IN  IF s.drag_handle = "Move"
             THEN [s EXCEPT !.region =
                      Some(<<Min(Max(rx + dx, 0), img_width - rw),
                             Min(Max(ry + dy, 0), img_height - rh), rw, rh>>)]
             ELSE [s EXCEPT !.region =
                      Some(resize_region(s.drag_handle, rx, ry, rw, rh, dx, dy,
                                         img_width, img_height))]
    ELSE s

\* CropSelection::end_drag
CropSelection_end_drag(s) ==
    [s EXCEPT !.is_dragging = FALSE, !.drag_start = None,
              !.drag_start_region = None]

\* CropSelection::reset
CropSelection_reset(s) == CropSelection_default

\* `v as u32` for an f32 v in half pixels: the fraction is dropped and a
\* negative value saturates at 0.
f32_as_u32(v) == IF v < 0 THEN 0 ELSE v \div 2

\* CropSelection::as_pixel_rect
CropSelection_as_pixel_rect(s) ==
    IF s.region.tag = "Some" /\ s.region.val[3] > 2 /\ s.region.val[4] > 2
    THEN Some(<<f32_as_u32(s.region.val[1]), f32_as_u32(s.region.val[2]),
                f32_as_u32(s.region.val[3]), f32_as_u32(s.region.val[4])>>)
    ELSE None

DriverIdle == [state |-> "idle", next |-> 0, calls |-> 0, visited |-> <<>>]

\* A thumbnail an earlier session left on disk for a page.
StoredThumbnail(page) ==
    create_image_handle_from_image(PageImage(page, Standard(0), PDF_THUMBNAIL_SIZE_X4))

\* PortableDocument::open: at least one page, page 0 rendered unrotated at
\* the display quality, identity transform, no thumbnail store.
InitPortable ==
    /\ kind = "Portable"
    /\ num_pages \in 1..MaxPages
    /\ bad_pages \in {b \in SUBSET (1..(num_pages - 1)) : Cardinality(b) <= MaxBadPages}
    /\ disk_cache_enabled \in BOOLEAN
    /\ disk_writable \in (IF disk_cache_enabled THEN BOOLEAN ELSE {TRUE})
    /\ \E cached \in SUBSET (0..(num_pages - 1)) :
          /\ Cardinality(cached) <= MaxCachedPages
          /\ disk_cache_enabled \/ cached = {}
          /\ disk_cache = [p \in 0..(num_pages - 1) |->
                             IF p \in cached THEN Some(StoredThumbnail(p)) ELSE None]
    /\ page_index = 0
    /\ transform = IdentityTransform
    /\ rendered = PageImage(0, Standard(0), PDF_RENDER_QUALITY_X4)
    /\ handle = create_image_handle_from_image(rendered)
    /\ thumbnail_cache = None
    /\ native_width = 0
    /\ native_height = 0
    /\ current_scale = 0
    /\ vector_size = <<0, 0>>

\* RasterDocument::open: the decoded picture, its size as native size,
\* identity transform.
InitRaster ==
    /\ kind = "Raster"
    /\ rendered = DecodedImage
    /\ native_width = DecodedImage.w
    /\ native_height = DecodedImage.h
    /\ transform = IdentityTransform
    /\ current_scale = 0
    /\ vector_size = <<0, 0>>

\* VectorDocument::open: a 2 x 1 scene rendered at scale 1.0 (4 quarters).
InitVector ==
    /\ kind = "Vector"
    /\ native_width = 2
    /\ native_height = 1
    /\ current_scale = 4
    /\ transform = VectorTransformDefault
    /\ rendered = render_document(native_width, native_height, current_scale,
                                  transform).val
    /\ vector_size = dimensions(rendered)

\* Raster and vector documents: the fields of the portable backend do not
\* exist; only the dispatcher's defaults apply to them.
InitSinglePage ==
    /\ InitRaster \/ InitVector
    /\ num_pages = 0
    /\ bad_pages = {}
    /\ disk_cache_enabled = FALSE
    /\ disk_writable = TRUE
    /\ disk_cache = <<>>
    /\ page_index = 0
    /\ handle = create_image_handle_from_image(rendered)
    /\ thumbnail_cache = None

Init ==
    /\ InitPortable \/ InitSinglePage
    /\ call = NoCall
    /\ driver = DriverIdle
    /\ selection = CropSelection_default

\* ------------------------------------------------------------------------
\* Operations
\* ------------------------------------------------------------------------

\* DocumentContent::generate_thumbnail_page(page) -> DocResult<()>; call.next
\* is what PortableDocument::generate_thumbnail_page returned underneath. In a
\* build with overflow checks page + 1 panics at the largest page value.
GenerateThumbnailPage(page) ==
    /\ IF kind = "Portable"
       THEN LET r == generate_thumbnail_page(thumbnail_cache, disk_cache, page)
            IN  /\ thumbnail_cache' = r.cache
                /\ disk_cache' = r.disk
                /\ \E next \in {r.next} \cup (IF page = UsizeMax THEN {Panic} ELSE {}) :
                      call' = Call("generate_thumbnail_page", page,
                                   IF next = Panic THEN Panic ELSE Ok(Unit), next, r.io,
                                   thumbnails_loaded(r.cache)
                                     - thumbnails_loaded(thumbnail_cache))
       ELSE /\ UNCHANGED <<thumbnail_cache, disk_cache>>
            /\ call' = Call("generate_thumbnail_page", page, Ok(Unit), None, <<>>, 0)
    /\ UNCHANGED <<env, single_page, page_index, transform, rendered, handle, driver, selection>>

\* DocumentContent::generate_thumbnails -> generate_all_thumbnails
GenerateThumbnails ==
    /\ IF kind = "Portable"
       THEN LET r == generate_all_thumbnails(thumbnail_cache, disk_cache)
            IN  /\ thumbnail_cache' = r.cache
                /\ disk_cache' = r.disk
                /\ call' = Call("generate_thumbnails", 0, Ok(Unit), None, r.io,
                             thumbnails_loaded(r.cache)
                               - thumbnails_loaded(thumbnail_cache))
       ELSE /\ UNCHANGED <<thumbnail_cache, disk_cache>>
            /\ call' = Call("generate_thumbnails", 0, Ok(Unit), None, <<>>, 0)
    /\ UNCHANGED <<env, single_page, page_index, transform, rendered, handle, driver, selection>>

\* DocumentContent::go_to_page(page) -> MultiPage::go_to_page
GoToPage(page) ==
    /\ IF kind = "Portable"
       THEN LET r == go_to_page(page)
                img == rerender(r.val, transform, rendered, handle)
            IN  IF r.tag = "Err"
                THEN /\ UNCHANGED <<page_index, rendered, handle>>
                     /\ call' = Call("go_to_page", page, r, None, <<>>, 0)
                ELSE /\ page_index' = r.val
                     /\ rendered' = img.rendered
                     /\ handle' = img.handle
                     /\ call' = Call("go_to_page", page, Ok(Unit), None, <<>>, 0)
       ELSE /\ UNCHANGED <<page_index, rendered, handle>>
            /\ call' = Call("go_to_page", page, Ok(Unit), None, <<>>, 0)
    /\ UNCHANGED <<env, single_page, transform, thumbnail_cache, disk_cache, driver, selection>>

\* Mutant: the last page still has a next page (page_index + 1 <= num_pages).
NextPage_past_end ==
    /\ kind = "Portable"
    /\ IF page_index + 1 <= num_pages
       THEN LET img == rerender(page_index + 1, transform, rendered, handle)
            IN  /\ page_index' = page_index + 1
                /\ rendered' = img.rendered
                /\ handle' = img.handle
                /\ call' = Call("next_page", 0, TRUE, None, <<>>, 0)
       ELSE /\ UNCHANGED <<page_index, rendered, handle>>
            /\ call' = Call("next_page", 0, FALSE, None, <<>>, 0)
    /\ UNCHANGED <<env, single_page, transform, thumbnail_cache, disk_cache, driver, selection>>

\* PortableDocument::next_page
NextPage ==
    /\ kind = "Portable"
    /\ IF page_index + 1 < num_pages
       THEN LET img == rerender(page_index + 1, transform, rendered, handle)
            IN  /\ page_index' = page_index + 1
                /\ rendered' = img.rendered
                /\ handle' = img.handle
                /\ call' = Call("next_page", 0, TRUE, None, <<>>, 0)
       ELSE /\ UNCHANGED <<page_index, rendered, handle>>
            /\ call' = Call("next_page", 0, FALSE, None, <<>>, 0)
    /\ UNCHANGED <<env, single_page, transform, thumbnail_cache, disk_cache, driver, selection>>

\* PortableDocument::prev_page
PrevPage ==
    /\ kind = "Portable"
    /\ IF page_index > 0
       THEN LET img == rerender(page_index - 1, transform, rendered, handle)
            IN  /\ page_index' = page_index - 1
                /\ rendered' = img.rendered
                /\ handle' = img.handle
                /\ call' = Call("prev_page", 0, TRUE, None, <<>>, 0)
       ELSE /\ UNCHANGED <<page_index, rendered, handle>>
            /\ call' = Call("prev_page", 0, FALSE, None, <<>>, 0)
    /\ UNCHANGED <<env, single_page, transform, thumbnail_cache, disk_cache, driver, selection>>

\* Transformable::rotate(rotation) on the portable backend
Rotate(rotation) ==
    /\ kind = "Portable"
    /\ LET tf == [transform EXCEPT !.rotation = Standard(rotation)]
           img == rerender(page_index, tf, rendered, handle)
       IN  /\ transform' = tf
           /\ rendered' = img.rendered
           /\ handle' = img.handle
    /\ call' = Call("rotate", rotation, Unit, None, <<>>, 0)
    /\ UNCHANGED <<env, single_page, page_index, thumbnail_cache, disk_cache, driver, selection>>

\* Transformable::flip(direction) on the portable backend
Flip(direction) ==
    /\ kind = "Portable"
    /\ LET tf == IF direction = "Horizontal"
                 THEN [transform EXCEPT !.flip_h = ~transform.flip_h]
                 ELSE [transform EXCEPT !.flip_v = ~transform.flip_v]
           img == rerender(page_index, tf, rendered, handle)
       IN  /\ transform' = tf
           /\ rendered' = img.rendered
           /\ handle' = img.handle
    /\ call' = Call("flip", direction, Unit, None, <<>>, 0)
    /\ UNCHANGED <<env, single_page, page_index, thumbnail_cache, disk_cache, driver, selection>>

\* The document after an operation: every field of the backend.
SetDoc(d) ==
    /\ page_index' = d.page_index
    /\ transform' = d.transform
    /\ rendered' = d.rendered
    /\ handle' = d.handle
    /\ native_width' = d.native_width
    /\ native_height' = d.native_height
    /\ current_scale' = d.current_scale
    /\ vector_size' = d.vector_size

\* Rectangles <<x, y, width, height>> a caller may ask to crop to: inside
\* the raster, reaching past its right or lower edge, empty, and with the
\* origin outside, up to the largest value of the type.
CropRects ==
    {<<0, 0, 2, 1>>, <<1, 0, 2, 1>>, <<1, 1, 1, 1>>,
     <<1, 0, U32Max, 1>>, <<1, 0, 2, U32Max>>, <<0, 0, U32Max, U32Max>>,
     <<1, 0, U32Max, 0>>, <<0, 0, 0, 1>>,
     <<U32Max, 0, 1, 1>>, <<0, U32Max, 2, 1>>}

\* Scales a caller may ask the vector backend for, in quarters: 1.0, 1.5,
\* 2.0 and one too large for a pixmap.
VectorScales == {4, 6, 8, 4 * PixmapLimit + 4}

\* The rotation mode transform_state() handed to the dispatcher.
IoRotation(mode) == [ev |-> "transform_state", mode |-> mode]

\* DocumentContent::rotate_cw; call.arg is the Rotation handed to the backend.
RotateCw ==
    /\ SetDoc(DocumentContent_rotate_cw(Doc))
    /\ call' = Call("rotate_cw",
                    IF kind = "Vector" THEN 0 ELSE rotate_cw_target(transform.rotation),
                    Unit, None,
                    IF kind = "Vector" THEN <<>> ELSE <<IoRotation(transform.rotation)>>,
                    0)
    /\ UNCHANGED <<env, thumbnail_cache, disk_cache, driver, selection>>

\* DocumentContent::rotate_ccw
RotateCcw ==
    /\ SetDoc(DocumentContent_rotate_ccw(Doc))
    /\ call' = Call("rotate_ccw",
                    IF kind = "Vector" THEN 0 ELSE rotate_ccw_target(transform.rotation),
                    Unit, None,
                    IF kind = "Vector" THEN <<>> ELSE <<IoRotation(transform.rotation)>>,
                    0)
    /\ UNCHANGED <<env, thumbnail_cache, disk_cache, driver, selection>>

\* DocumentContent::flip_horizontal / flip_vertical
FlipDocument(direction) ==
    /\ SetDoc(DocumentContent_flip(Doc, direction))
    /\ call' = Call("flip", direction, Unit, None, <<>>, 0)
    /\ UNCHANGED <<env, thumbnail_cache, disk_cache, driver, selection>>

\* DocumentContent::crop on the raster and the portable backend. The raster
\* backend's bounds test adds on u32: both builds are possible.
Crop(x, y, crop_width, crop_height) ==
    /\ kind \in {"Raster", "Portable"}
    /\ \E checked \in (IF kind = "Raster" THEN BOOLEAN ELSE {FALSE}) :
          LET r == IF kind = "Raster"
                   THEN RasterDocument_crop(Doc, x, y, crop_width, crop_height, checked)
                   ELSE PortableDocument_crop(Doc, x, y, crop_width, crop_height)
          IN  /\ SetDoc(r.doc)
              /\ call' = Call("crop", <<x, y, crop_width, crop_height>>, r.ret,
                              None, <<>>, 0)
    /\ UNCHANGED <<env, thumbnail_cache, disk_cache, driver, selection>>

\* RasterDocument::crop_to_image
CropToImage(x, y, crop_width, crop_height) ==
    /\ kind = "Raster"
    /\ \E checked \in BOOLEAN :
          LET r == RasterDocument_crop_to_image(Doc, x, y, crop_width, crop_height,
                                                checked)
          IN  /\ SetDoc(r.doc)
              /\ call' = Call("crop_to_image", <<x, y, crop_width, crop_height>>,
                              r.ret, None, <<>>, 0)
    /\ UNCHANGED <<env, thumbnail_cache, disk_cache, driver, selection>>

\* VectorDocument::render_at_scale(scale)
RenderAtScale(scale_x4) ==
    /\ kind = "Vector"
    /\ LET r == render_at_scale(Doc, scale_x4)
       IN  /\ SetDoc(r.doc)
           /\ call' = Call("render_at_scale", scale_x4, r.ret, None, r.io, 0)
    /\ UNCHANGED <<env, thumbnail_cache, disk_cache, driver, selection>>

\* Extensions as they may be written in a path.
SampleExtensions ==
    {Svg, <<"S", "V", "G">>, <<"S", "v", "g">>, Svgz, <<"s", "V", "G", "Z">>,
     Pdf, <<"P", "D", "F">>, <<"p", "D", "f">>,
     <<"p", "n", "g">>, <<"P", "N", "G">>, <<"j", "p", "g">>,
     <<"t", "x", "t">>, <<"s", "v">>, <<>>, <<"É">>, <<InvalidUtf8>>}

\* What may stand before the dot of the extension: a name, nothing (a
\* hidden file), a name with a dot of its own, a directory with a dot.
SampleStems ==
    {<<"a">>, <<>>, <<"a", ".", "p", "d", "f">>, <<"d", ".", "s", "v", "g", "/", "a">>}

SamplePaths ==
    SampleStems \cup {stem \o <<".">> \o ext : stem \in SampleStems, ext \in SampleExtensions}

\* What the image library may know: nothing, two raster formats, or also
\* the extensions the vector and portable sets name.
Registries ==
    {{}, {<<"p", "n", "g">>, <<"j", "p", "g">>},
     {<<"p", "n", "g">>, <<"j", "p", "g">>, Svg, Svgz, Pdf}}

\* DocumentKind::from_path(path), with the formats the image library knows
\* in call.io.
Detect(path, registry) ==
    /\ call' = Call("from_path", path, DocumentKind_from_path(path, registry), None,
                    <<registry>>, 0)
    /\ UNCHANGED <<env, single_page, page_index, transform, rendered, handle,
                   thumbnail_cache, disk_cache, driver, selection>>

\* DocumentKind::from_path(path) of app/document
DetectApp(path, registry) ==
    /\ call' = Call("from_path_app", path, DocumentKind_from_path_app(path, registry),
                    None, <<registry>>, 0)
    /\ UNCHANGED <<env, single_page, page_index, transform, rendered, handle,
                   thumbnail_cache, disk_cache, driver, selection>>

\* The caller that generates one thumbnail per tick: it asks for page 0 and
\* then for whatever page the previous call returned, until a call returns None.
DriverStep ==
    /\ kind = "Portable"
    /\ driver.state # "done"
    /\ LET page == IF driver.state = "idle" THEN 0 ELSE driver.next
           r == generate_thumbnail_page(thumbnail_cache, disk_cache, page)
       IN  /\ thumbnail_cache' = r.cache
           /\ disk_cache' = r.disk
           /\ call' = Call("generate_thumbnail_page", page, Ok(Unit), r.next, r.io,
                        thumbnails_loaded(r.cache)
                          - thumbnails_loaded(thumbnail_cache))
           /\ driver' = [state |-> IF r.next.tag = "Some" THEN "running" ELSE "done",
                         next |-> IF r.next.tag = "Some" THEN r.next.val ELSE 0,
                         calls |-> driver.calls + 1,
                         visited |-> Append(driver.visited, page)]
    /\ UNCHANGED <<env, single_page, page_index, transform, rendered, handle,
                   selection>>

\* ------------------------------------------------------------------------
\* Specifications
\* ------------------------------------------------------------------------

NextThumbnails ==
    \/ \E page \in PageArgs : GenerateThumbnailPage(page)
    \/ GenerateThumbnails

NextNavigation ==
    \/ GenerateThumbnails
    \/ \E page \in PageArgs : GoToPage(page)
    \/ NextPage
    \/ PrevPage
    \/ \E rotation \in Rotations : Rotate(rotation)
    \/ \E direction \in FlipDirections : Flip(direction)

\* Transforms, crops and re-renders through the dispatcher.
NextTransform ==
    \/ RotateCw
    \/ RotateCcw
    \/ \E direction \in FlipDirections : FlipDocument(direction)
    \/ \E r \in CropRects : Crop(r[1], r[2], r[3], r[4])
    \/ \E r \in CropRects : CropToImage(r[1], r[2], r[3], r[4])
    \/ \E scale \in VectorScales : RenderAtScale(scale)

Next ==
    \/ \E page \in PageArgs : GenerateThumbnailPage(page)
    \/ NextNavigation
    \/ NextTransform

\* Any caller, any arguments, any order.
Spec == Init /\ [][Next]_vars

\* A raster, a vector or a one-page portable document.
InitTransform == Init /\ ~disk_cache_enabled /\ num_pages <= 1

SpecTransform == InitTransform /\ [][NextTransform]_vars

\* What the dispatcher answers for the kinds without pages, on documents
\* that have been rotated, flipped and re-rendered.
NextDefaults ==
    \/ RotateCw
    \/ \E direction \in FlipDirections : FlipDocument(direction)
    \/ \E scale \in VectorScales : RenderAtScale(scale)
    \/ \E page \in PageArgs : GoToPage(page)
    \/ \E page \in PageArgs : GenerateThumbnailPage(page)
    \/ GenerateThumbnails

InitDefaults == Init /\ kind # "Portable"

SpecDefaults == InitDefaults /\ [][NextDefaults]_vars

\* Whole degrees a fine rotation may stand at: negative, within one turn
\* and beyond one turn, the half-way points between quarter turns included.
FineDegrees == (-MaxFineDeg)..MaxFineDeg

\* A one-page portable document whose transform holds a fine rotation. The
\* picture of a page drawn at an angle that is not a quarter turn is not
\* worked out pixel by pixel: the raster of this state is the surface of
\* render_page_at_scale with the page drawn upright.
InitReconcile ==
    /\ kind = "Portable"
    /\ num_pages = 1
    /\ bad_pages = {}
    /\ disk_cache_enabled = FALSE
    /\ disk_writable = TRUE
    /\ disk_cache = [p \in 0..(num_pages - 1) |-> None]
    /\ page_index = 0
    /\ \E deg \in FineDegrees :
          transform = [IdentityTransform EXCEPT !.rotation = Fine(deg)]
    /\ rendered = PageImage(0, transform.rotation, PDF_RENDER_QUALITY_X4)
    /\ handle = create_image_handle_from_image(rendered)
    /\ thumbnail_cache = None
    /\ native_width = 0
    /\ native_height = 0
    /\ current_scale = 0
    /\ vector_size = <<0, 0>>
    /\ call = NoCall
    /\ driver = DriverIdle
    /\ selection = CropSelection_default

SpecReconcile == InitReconcile /\ [][RotateCw \/ RotateCcw]_vars

\* Before any document is open: only paths are looked at.
InitDetect ==
    /\ kind = "Unopened"
    /\ num_pages = 0
    /\ bad_pages = {}
    /\ disk_cache_enabled = FALSE
    /\ disk_writable = TRUE
    /\ disk_cache = <<>>
    /\ page_index = 0
    /\ transform = IdentityTransform
    /\ rendered = Image(0, 0, <<>>)
    /\ handle = create_image_handle_from_image(rendered)
    /\ thumbnail_cache = None
    /\ native_width = 0
    /\ native_height = 0
    /\ current_scale = 0
    /\ vector_size = <<0, 0>>
    /\ call = NoCall
    /\ driver = DriverIdle
    /\ selection = CropSelection_default

NextDetect ==
    \/ \E path \in SamplePaths, registry \in Registries : Detect(path, registry)
    \/ \E path \in SamplePaths, registry \in Registries : DetectApp(path, registry)

SpecDetect == InitDetect /\ [][NextDetect]_vars

\* Every operation that changes what a document shows: transforms, crops,
\* renders at a scale and page navigation.
NextDocument ==
    \/ NextTransform
    \/ \E page \in PageArgs : GoToPage(page)
    \/ NextPage
    \/ PrevPage

InitDocument == Init /\ ~disk_cache_enabled /\ num_pages <= MaxNavPages

SpecDocument == InitDocument /\ [][NextDocument]_vars

\* The thumbnail operations alone: they leave the page cursor, the transform
\* and the displayed raster as open() set them.
SpecThumbnails == Init /\ [][NextThumbnails]_vars

\* Navigation and transforms on the backend that carries the TransformState
\* (its build has the disk cache disabled), with the blocking generate-all
\* helper filling the thumbnail store at any moment.
InitNavigation == Init /\ ~disk_cache_enabled /\ num_pages <= MaxNavPages

SpecNavigation == InitNavigation /\ [][NextNavigation]_vars

\* Only the per-tick thumbnail driver acts, on a freshly opened document.
SpecDriver == Init /\ [][DriverStep]_vars

\* The driver's ticks keep coming as long as a page is pending.
SpecDriverFair == SpecDriver /\ WF_vars(DriverStep)

\* ------------------------------------------------------------------------
\* Properties
\* ------------------------------------------------------------------------

\* The handles that are a thumbnail of page p: the page rendered at the
\* preview scale (fresh or from disk), or the placeholder when it fails.
ThumbnailsOfPage(p) ==
    {StoredThumbnail(p)} \cup (IF p \in bad_pages THEN {PlaceholderHandle} ELSE {})

\* The last call rendered this page (it was not served from the disk cache).
Rendered(page) == \E i \in 1..Len(call.io) : call.io[i] = IoRender(page)

\* What the display shows for a page under a transform: the page rendered
\* with the rotation at the display quality, then mirrored per flip flag.
RenderOf(page, tf) ==
    LET img == PageImage(page, tf.rotation, PDF_RENDER_QUALITY_X4)
        h == IF tf.flip_h THEN flip_horizontal(img) ELSE img
    IN  IF tf.flip_v THEN flip_vertical(h) ELSE h

RECURSIVE DriveFrom(_, _, _)
\* Driving generate_thumbnail_page from `page` on, each call with the page
\* the previous call returned, until a call returns None.
DriveFrom(cache, disk, page) ==
    LET r == generate_thumbnail_page(cache, disk, page)
    IN  IF r.next.tag = "Some" THEN DriveFrom(r.cache, r.disk, r.next.val) ELSE r

\* C1: whatever page arguments generate_thumbnail_page was called with, the
\* entry at position i of the thumbnail store is the thumbnail of page i,
\* and a call that generates appends exactly one entry.
C1_StoreInIndexOrder ==
    kind = "Portable" =>
        /\ \A i \in 0..(thumbnails_loaded(thumbnail_cache) - 1) :
              get_thumbnail(thumbnail_cache, i).val \in ThumbnailsOfPage(i)
        /\ (call.op = "generate_thumbnail_page" /\ call.io # <<>>) => call.grew = 1

\* C2: the driver that starts at page 0 and follows the returned pages has,
\* after k calls, visited pages 0..k-1 in order and grown the store by one
\* per call; the call that returns None is exactly the num_pages-th, and
\* thumbnails_ready() is false before that call and true after it.
C2_DriverVisitsPagesInOrder ==
    kind = "Portable" =>
        /\ driver.calls <= num_pages
        /\ driver.visited = [i \in 1..driver.calls |-> i - 1]
        /\ thumbnails_loaded(thumbnail_cache) = driver.calls
        /\ driver.calls >= 1 =>
              /\ call.grew = 1
              /\ call.next = None <=> driver.calls = num_pages
        /\ driver.state = "done" <=> driver.calls = num_pages
        /\ thumbnails_ready(thumbnail_cache) <=> driver.calls = num_pages

C2_Witness ==
    /\ kind = "Portable"
    /\ num_pages >= 3
    /\ driver.state = "done"
    /\ driver.calls = num_pages
    /\ thumbnails_ready(thumbnail_cache)

\* C3: generate_thumbnail_page(page) returns Some(page + 1) when
\* page + 1 < num_pages and None when page + 1 = num_pages, whatever the
\* store holds.
C3_ReturnsNextPage ==
    (kind = "Portable" /\ call.op = "generate_thumbnail_page") =>
        /\ call.arg + 1 < num_pages => call.next = Some(call.arg + 1)
        /\ call.arg + 1 = num_pages => call.next = None

C3_Witness ==
    /\ kind = "Portable"
    /\ call.op = "generate_thumbnail_page"
    /\ num_pages >= 2
    /\ call.arg + 1 = num_pages
    /\ call.next = None
    /\ thumbnails_loaded(thumbnail_cache) < num_pages

\* C4: a call for a page the store already covers, or for a page at or past
\* num_pages, generates nothing: same count, same entries, no disk-cache
\* access and no render.
C4_CoveredOrOutOfRangeGeneratesNothing ==
    [][ ( /\ kind = "Portable"
          /\ call'.op = "generate_thumbnail_page"
          /\ \/ call'.arg < thumbnails_loaded(thumbnail_cache)
             \/ call'.arg >= num_pages )
        => /\ thumbnails_loaded(thumbnail_cache') = thumbnails_loaded(thumbnail_cache)
           /\ \A p \in 0..MaxPages :
                 get_thumbnail(thumbnail_cache', p) = get_thumbnail(thumbnail_cache, p)
           /\ call'.io = <<>>
           /\ disk_cache' = disk_cache ]_vars

C4_Witness ==
    /\ kind = "Portable"
    /\ call.op = "generate_thumbnail_page"
    /\ call.arg < thumbnails_loaded(thumbnail_cache)
    /\ thumbnails_loaded(thumbnail_cache) < num_pages
    /\ call.grew = 0
    /\ call.io = <<>>

\* C5: thumbnails_ready() holds exactly when the store is initialized and
\* its length is at least num_pages, that is when every page has an entry;
\* the dispatcher reports false for a raster or vector document.
C5_ReadyIffStoreComplete ==
    LET complete == thumbnail_cache.tag = "Some"
                    /\ Len(thumbnail_cache.val) >= num_pages
    IN  /\ kind = "Portable" =>
              /\ thumbnails_ready(thumbnail_cache) <=> complete
              /\ thumbnails_ready_app(thumbnail_cache) <=> complete
              /\ DocumentContent_thumbnails_ready <=> complete
              /\ complete <=> \A p \in Pages :
                                 get_thumbnail(thumbnail_cache, p).tag = "Some"
        /\ kind # "Portable" => ~DocumentContent_thumbnails_ready

C5_Witness ==
    /\ kind = "Portable"
    /\ num_pages >= 2
    /\ thumbnails_ready(thumbnail_cache)
    /\ DocumentContent_thumbnails_ready

\* C6: when the page a driver call asked for fails to render, the call
\* still appends exactly one entry, the 1x1 transparent placeholder at that
\* page's position, and returns what a successful call returns; the driver
\* eventually reaches thumbnails_ready().
C6_FailedRenderGetsPlaceholder ==
    /\ []( ( /\ kind = "Portable"
             /\ driver.calls >= 1
             /\ call.arg \in bad_pages
             /\ Rendered(call.arg) )
           => /\ call.grew = 1
              /\ get_thumbnail(thumbnail_cache, call.arg) = Some(PlaceholderHandle)
              /\ call.next = IF call.arg + 1 < num_pages
                             THEN Some(call.arg + 1) ELSE None )
    /\ <>(kind = "Portable" => thumbnails_ready(thumbnail_cache))

C6_Witness ==
    /\ kind = "Portable"
    /\ driver.state = "done"
    /\ thumbnails_ready(thumbnail_cache)
    /\ \E p \in bad_pages :
          /\ p + 1 < num_pages
          /\ get_thumbnail(thumbnail_cache, p) = Some(PlaceholderHandle)

\* C7: from any store state the generate-all helper leaves thumbnails_ready()
\* true and the store (and disk cache) that driving generate_thumbnail_page
\* from page 0 leaves; on a store that is already ready it changes nothing.
C7_GenerateAllIsTheDrivenLoop ==
    [][ (kind = "Portable" /\ call'.op = "generate_thumbnails")
        => /\ thumbnails_ready(thumbnail_cache')
           /\ thumbnail_cache' = DriveFrom(thumbnail_cache, disk_cache, 0).cache
           /\ disk_cache' = DriveFrom(thumbnail_cache, disk_cache, 0).disk
           /\ thumbnails_ready(thumbnail_cache) =>
                 /\ UNCHANGED <<thumbnail_cache, disk_cache>>
                 /\ call'.io = <<>> ]_vars

C7_Witness ==
    /\ kind = "Portable"
    /\ call.op = "generate_thumbnails"
    /\ thumbnails_ready(thumbnail_cache)
    /\ call.grew >= 1
    /\ call.grew < num_pages

\* C8: go_to_page(n) with n >= num_pages returns the out-of-range error and
\* leaves the cursor, the transform, the raster, the handle and the
\* thumbnail store as they were.
C8_GoToPageOutOfRangeChangesNothing ==
    [][ (kind = "Portable" /\ call'.op = "go_to_page" /\ call'.arg >= num_pages)
        => /\ call'.ret = Err("page out of range")
           /\ UNCHANGED <<page_index, transform, rendered, handle,
                          thumbnail_cache>> ]_vars

C8_Witness ==
    /\ kind = "Portable"
    /\ call.op = "go_to_page"
    /\ call.arg >= num_pages
    /\ call.ret.tag = "Err"
    /\ page_index > 0
    /\ transform # IdentityTransform
    /\ thumbnail_cache.tag = "Some"

\* C9: a thumbnail request for a page at or past num_pages is reported to
\* the caller as an error and changes no state; a store that was None stays
\* None.
C9_ThumbnailRequestOutOfRangeIsSurfaced ==
    [][ (kind = "Portable" /\ call'.op = "generate_thumbnail_page"
                           /\ call'.arg >= num_pages)
        => /\ call'.ret.tag = "Err"
           /\ UNCHANGED <<page_index, transform, rendered, handle,
                          thumbnail_cache, disk_cache>> ]_vars

\* C10: after rotate, flip, go_to_page, next_page or prev_page the displayed
\* raster is the render of the current page under the current rotation and
\* flips (a failed re-render having rolled the cursor and transform back).
C10_RasterIsRenderOfCursorAndTransform ==
    (kind = "Portable"
       /\ call.op \in {"rotate", "flip", "go_to_page", "next_page", "prev_page"})
    => rendered = RenderOf(page_index, transform)

\* The rotation stored in a document is one of the standard steps.
StandardRotation(d) ==
    IF d.kind = "Vector"
    THEN d.transform.rotation \in Rotations
    ELSE d.transform.rotation.mode = "Standard"

\* What a caller can see of a document's picture and transform.
Appearance(d) ==
    [dimensions |-> DocumentContent_dimensions(d), pixels |-> d.rendered,
     transform |-> d.transform]

\* C11: in every reachable state whose rotation is a standard step, four
\* rotate_cw() calls in a row lead back to the same dimensions, the same
\* pixels and the same transform state, on every backend.
C11_FourQuarterTurnsRestore ==
    StandardRotation(Doc) =>
        Appearance(DocumentContent_rotate_cw(DocumentContent_rotate_cw(
                   DocumentContent_rotate_cw(DocumentContent_rotate_cw(Doc)))))
          = Appearance(Doc)

\* C12: in every reachable state, flipping twice along the same axis leads
\* back to the same pixels, dimensions and flip flags, and each of the two
\* flips toggles the flag of its axis.
C12_TwoFlipsRestore ==
    \A direction \in FlipDirections :
        LET once == DocumentContent_flip(Doc, direction)
            twice == DocumentContent_flip(once, direction)
        IN  /\ Appearance(twice) = Appearance(Doc)
            /\ IF direction = "Horizontal"
               THEN /\ once.transform.flip_h = ~transform.flip_h
                    /\ twice.transform.flip_h = transform.flip_h
               ELSE /\ once.transform.flip_v = ~transform.flip_v
                    /\ twice.transform.flip_v = transform.flip_v

\* The multiple of 90 nearest to deg, the one farther from zero when deg
\* lies half-way between two.
NearestQuarterTurn(deg) ==
    LET Abs(n) == IF n >= 0 THEN n ELSE -n
        Multiples == {90 * k : k \in -((MaxFineDeg \div 90) + 1)..((MaxFineDeg \div 90) + 1)}
    IN  CHOOSE m \in Multiples :
            \A n \in Multiples \ {m} :
                \/ Abs(deg - m) < Abs(deg - n)
                \/ Abs(deg - m) = Abs(deg - n) /\ Abs(m) > Abs(n)

C14_RasterCropOutOfBoundsRejected ==
    [][(kind = "Raster"
          /\ call'.op \in {"crop", "crop_to_image"}
          /\ \/ call'.arg[1] + call'.arg[3] > rendered.w
             \/ call'.arg[2] + call'.arg[4] > rendered.h)
       => /\ call'.ret.tag = "Err"
          /\ UNCHANGED <<rendered, native_width, native_height, transform, handle>>]_vars

\* A crop of the portable backend whose origin lies inside the raster and
\* whose rectangle reaches past the right or the lower edge.
PortableCropPastEdge ==
    /\ kind = "Portable"
    /\ call'.op = "crop"
    /\ call'.arg[1] < rendered.w
    /\ call'.arg[2] < rendered.h
    /\ \/ call'.arg[1] + call'.arg[3] > rendered.w
       \/ call'.arg[2] + call'.arg[4] > rendered.h

\* The crop succeeded and the raster has the requested size cut down to
\* what lies past the origin.
PortableCropClamped ==
    /\ call'.ret = Ok(Unit)
    /\ dimensions(rendered') = <<Min(call'.arg[3], rendered.w - call'.arg[1]),
                                 Min(call'.arg[4], rendered.h - call'.arg[2])>>

\* C15 as stated: every portable crop with its origin inside the raster
\* and its rectangle past an edge succeeds with the clamped dimensions.
C15_PortableCropClampsAlways ==
    [][PortableCropPastEdge => PortableCropClamped]_vars

\* C15: a portable crop with its origin inside the raster, a width and a
\* height of at least 1 and its rectangle past an edge succeeds, and the
\* dimensions afterwards are (min(w, width - x), min(h, height - y)).
C15_PortableCropClampsNonEmpty ==
    [][(PortableCropPastEdge /\ call'.arg[3] >= 1 /\ call'.arg[4] >= 1)
       => PortableCropClamped]_vars

\* A portable crop asked for more columns than the raster had and got the
\* columns to the right of x.
C15_Witness ==
    /\ kind = "Portable"
    /\ call.op = "crop"
    /\ call.ret = Ok(Unit)
    /\ call.arg[3] = U32Max
    /\ rendered.w > 1
    /\ rendered.w < call.arg[3]

\* What the dispatcher answers about pages and thumbnails for a document
\* without pages.
SinglePageDefaults ==
    /\ DocumentContent_page_count = 1
    /\ DocumentContent_current_page = 0
    /\ \A page \in PageArgs :
          /\ DocumentContent_get_thumbnail(page) = Ok(None)
          /\ DocumentContent_get_thumbnail_handle(page) = None
    /\ ~DocumentContent_thumbnails_ready
    /\ DocumentContent_thumbnails_loaded = 0
    /\ ~DocumentContent_all_thumbnails_loaded

C17_SecondRenderNeverRecomputes ==
    kind = "Vector" =>
        \A scale \in VectorScales :
            LET first == render_at_scale(Doc, scale)
                second == render_at_scale(first.doc, scale)
            IN  /\ second.io = <<>>
                /\ second.ret = FALSE
                /\ second.doc = first.doc

\* C17: a second render_at_scale with the scale of the call before it
\* returns false and leaves current scale, transform, raster, width, height
\* and handle as the first call left them; it does not call render_document
\* when the first call left the current scale at that scale, that is when
\* the first call rendered or the scale was current already.
C17_SecondRenderSkipsWhenScaleIsCurrent ==
    kind = "Vector" =>
        \A scale \in VectorScales :
            LET first == render_at_scale(Doc, scale)
                second == render_at_scale(first.doc, scale)
            IN  /\ second.ret = FALSE
                /\ second.doc = first.doc
                /\ scale_unchanged(first.doc.current_scale, scale) => second.io = <<>>

\* A scale other than the one of open() was rendered and then asked for
\* again: the second call did nothing.
C17_Witness ==
    /\ kind = "Vector"
    /\ call.op = "render_at_scale"
    /\ call.arg = current_scale
    /\ call.arg # 4
    /\ call.ret = FALSE
    /\ call.io = <<>>

\* Pairs of an upper-case letter and its lower-case form.
CasePairs ==
    {<<"S", "s">>, <<"V", "v">>, <<"G", "g">>, <<"Z", "z">>, <<"P", "p">>,
     <<"D", "d">>, <<"F", "f">>, <<"N", "n">>}

\* Two strings are the same up to the case of their letters.
SameIgnoringCase(a, b) ==
    /\ Len(a) = Len(b)
    /\ \A i \in 1..Len(a) :
          a[i] = b[i] \/ <<a[i], b[i]>> \in CasePairs \/ <<b[i], a[i]>> \in CasePairs

\* The kind the extension alone determines: the vector set first, then the
\* portable set, then the formats the image library knows, else none.
KindOfExtension(ext, vector_exts, portable_exts, registry) ==
    IF ext.tag = "None" THEN None
    ELSE IF \E i \in 1..Len(ext.val) : ext.val[i] = InvalidUtf8 THEN None
    ELSE IF \E v \in vector_exts : SameIgnoringCase(ext.val, v) THEN Some("Vector")
    ELSE IF \E p \in portable_exts : SameIgnoringCase(ext.val, p) THEN Some("Portable")
    ELSE IF \E r \in registry : SameIgnoringCase(ext.val, r) THEN Some("Raster")
    ELSE None

\* C18: the kind from_path returns is determined by the path's extension
\* compared without regard to case: Vector for an extension of the vector
\* set, else Portable for one of the portable set, else Raster for one the
\* image library knows, and None for a path without extension or with any
\* other extension.
C18_KindIsFunctionOfExtension ==
    /\ call.op = "from_path"
       => call.ret = KindOfExtension(extension(call.arg), {Svg, Svgz}, {Pdf}, call.io[1])
    /\ call.op = "from_path_app"
       => call.ret = KindOfExtension(extension(call.arg), {Svg}, {Pdf}, call.io[1])

\* a.SVG was looked at while the image library knew svg as well: the kind
\* is Vector.
C18_Witness ==
    /\ call.op = "from_path"
    /\ call.arg = <<"a", ".", "S", "V", "G">>
    /\ Svg \in call.io[1]
    /\ call.ret = Some("Vector")

\* C19: the page cursor of a portable document always names a page,
\* 0 <= page_index < num_pages, whatever navigation calls were made; and
\* next_page on the last page and prev_page on page 0 return false and
\* leave cursor, raster, handle, transform and thumbnails as they were.
C19_CursorStaysInRange ==
    /\ [](kind = "Portable" => (0 <= page_index /\ page_index < num_pages))
    /\ [][(\/ call'.op = "next_page" /\ page_index = num_pages - 1
           \/ call'.op = "prev_page" /\ page_index = 0)
          => /\ call'.ret = FALSE
             /\ UNCHANGED <<page_index, transform, rendered, handle,
                            thumbnail_cache, disk_cache>>]_vars

\* next_page was called on the last page of a document of several pages.
C19_Witness ==
    /\ kind = "Portable"
    /\ num_pages >= 2
    /\ call.op = "next_page"
    /\ call.ret = FALSE
    /\ page_index = num_pages - 1

\* The stored rotation in degrees; the vector backend keeps the number
\* itself, the others a rotation mode.
StoredRotation(d) ==
    IF d.kind = "Vector" THEN d.transform.rotation ELSE d.transform.rotation.deg

\* C20: rotate_cw takes a standard rotation d to (d + 90) mod 360 and
\* rotate_ccw takes it to (d - 90) mod 360; the stored rotation is always
\* one of 0, 90, 180, 270 and, away from the vector backend, in Standard
\* mode; and rotate_cw followed by rotate_ccw restores the rotation.
C20_QuarterTurnSteps ==
    /\ [](/\ StoredRotation(Doc) \in Rotations
          /\ StandardRotation(Doc)
          /\ StoredRotation(DocumentContent_rotate_ccw(DocumentContent_rotate_cw(Doc)))
               = StoredRotation(Doc))
    /\ [][/\ call'.op = "rotate_cw"
             => StoredRotation(Doc)' = (StoredRotation(Doc) + 90) % 360
          /\ call'.op = "rotate_ccw"
             => StoredRotation(Doc)' = (StoredRotation(Doc) - 90) % 360]_vars

\* A vector document at rotation 0 was rotated counter-clockwise: it
\* stands at 270.
C20_Witness ==
    /\ kind = "Vector"
    /\ call.op = "rotate_ccw"
    /\ transform.rotation = 270

\* C21: a crop whose rectangle has width 0 or height 0 is rejected with an
\* error by the raster and the portable backend alike, and the document is
\* left as it was.
C21_EmptyCropRejected ==
    [][(call'.op = "crop" /\ ~CropRegion_is_valid(call'.arg[3], call'.arg[4]))
       => /\ call'.ret.tag = "Err"
          /\ UNCHANGED <<page_index, transform, rendered, handle, native_width,
                         native_height>>]_vars

\* The pixels of img inside the rectangle at (x, y) of the given size.
SubRegion(img, x, y, w, h) ==
    [j \in 0..(h - 1) |-> [i \in 0..(w - 1) |-> img.px[y + j][x + i]]]

\* C22: a raster crop(x, y, w, h) that returns Ok leaves a buffer of size
\* (w, h) holding the pixels of the rectangle, native width and height
\* (w, h), the identity transform and a handle built from the new buffer;
\* a rotate_cw after it turns that buffer by a quarter turn.
C22_RasterCropResult ==
    [][(kind = "Raster" /\ call'.op = "crop" /\ call'.ret = Ok(Unit))
       => LET x == call'.arg[1]
              y == call'.arg[2]
              w == call'.arg[3]
              h == call'.arg[4]
              turned == DocumentContent_rotate_cw(Doc')
          IN  /\ dimensions(rendered') = <<w, h>>
              /\ rendered'.px = SubRegion(rendered, x, y, w, h)
              /\ native_width' = w
              /\ native_height' = h
              /\ transform' = IdentityTransform
              /\ handle' = create_image_handle_from_image(rendered')
              /\ turned.transform.rotation = Standard(90)
              /\ turned.rendered = rotate90(rendered')]_vars

\* C23: a portable crop whose origin lies outside the raster (x >= width
\* or y >= height) returns an error and leaves raster, handle, page cursor
\* and transform as they were.
C23_PortableCropOutsideRejected ==
    [][(kind = "Portable" /\ call'.op = "crop"
          /\ (call'.arg[1] >= rendered.w \/ call'.arg[2] >= rendered.h))
       => /\ call'.ret.tag = "Err"
          /\ UNCHANGED <<rendered, handle, page_index, transform>>
          /\ DocumentContent_dimensions(Doc') = DocumentContent_dimensions(Doc)]_vars

\* A flipped portable document was asked to crop at a column it does not
\* have and said no.
C23_Witness ==
    /\ kind = "Portable"
    /\ call.op = "crop"
    /\ call.arg[1] >= rendered.w
    /\ call.arg[4] >= 1
    /\ call.ret.tag = "Err"
    /\ transform.flip_h

\* C24: a go_to_page(n) that returns Ok sets the cursor to n, leaves
\* transform, page count and thumbnail store as they were, and leaves the
\* raster of page n drawn at the stored rotation and mirrored by each flip
\* flag that is set, with the handle built from it.
C24_GoToPageKeepsTransform ==
    [][(kind = "Portable" /\ call'.op = "go_to_page" /\ call'.ret = Ok(Unit))
       => /\ page_index' = call'.arg
          /\ UNCHANGED <<transform, num_pages, thumbnail_cache>>
          /\ rendered' = RenderOf(call'.arg, transform)
          /\ handle' = create_image_handle_from_image(rendered')]_vars

\* C25: in every reachable state of every backend the display handle is
\* the one built from the current raster, with its width, height and
\* pixels, and the vector backend's width and height are the raster's.
C25_HandleShowsBuffer ==
    /\ handle = create_image_handle_from_image(rendered)
    /\ handle.width = rendered.w
    /\ handle.height = rendered.h
    /\ kind = "Vector" => vector_size = dimensions(rendered)

\* A portable document on its second page was cropped after a flip.
C25_Witness ==
    /\ kind = "Portable"
    /\ page_index = 1
    /\ transform.flip_v
    /\ call.op = "crop"
    /\ call.ret = Ok(Unit)
    /\ rendered.w = 1

\* The smallest whole number not below n / d.
CeilDiv(n, d) == (n + d - 1) \div d

\* C26: a page that renders comes out ceil(width * scale) by
\* ceil(height * scale) pixels at the render quality, width and height of
\* the page swapped first when the rotation is 90 or 270; and a rotate_cw on
\* a portable document swaps the dimensions of its raster.
C26_SurfaceIsCeilOfScaledPage ==
    /\ [](kind = "Portable" =>
            \A p \in Pages, r \in Rotations :
                LET out == render_page(p, Standard(r))
                    swapped == r = 90 \/ r = 270
                    width == IF swapped THEN PageHeightQ(p) ELSE PageWidthQ(p)
                    height == IF swapped THEN PageWidthQ(p) ELSE PageHeightQ(p)
                IN  out.tag = "Ok" =>
                        dimensions(out.val)
                          = <<CeilDiv(width * PDF_RENDER_QUALITY_X4, 16),
                              CeilDiv(height * PDF_RENDER_QUALITY_X4, 16)>>)
    /\ [][(kind = "Portable" /\ call'.op = "rotate_cw")
          => dimensions(rendered') = <<rendered.h, rendered.w>>]_vars

\* C27: a generate_thumbnail_page call that generates looks the page up in
\* the disk cache first; on a hit the stored thumbnail is appended and
\* nothing is rendered or saved; on a miss the page is rendered at the
\* preview scale and saved under its page key; a failed render saves
\* nothing, and the entry is appended whether or not the save succeeded.
C27_DiskCacheConsultedFirst ==
    [][ ( /\ kind = "Portable"
          /\ call'.op = "generate_thumbnail_page"
          /\ call'.arg >= thumbnails_loaded(thumbnail_cache)
          /\ call'.arg < num_pages )
        => LET page == call'.arg
               hit == load_thumbnail(disk_cache, page)
               preview == render_page_at_scale(page, Standard(0),
                                               PDF_THUMBNAIL_SIZE_X4)
               appended == get_thumbnail(thumbnail_cache',
                                         thumbnails_loaded(thumbnail_cache))
           IN  /\ call'.grew = 1
               /\ call'.io # <<>> /\ call'.io[1] = IoLoad(page)
               /\ hit.tag = "Some"
                    => /\ call'.io = <<IoLoad(page)>>
                       /\ appended = hit
                       /\ disk_cache' = disk_cache
               /\ (hit.tag = "None" /\ preview.tag = "Ok")
                    => /\ call'.io = <<IoLoad(page), IoRender(page), IoSave(page)>>
                       /\ appended = Some(create_image_handle_from_image(preview.val))
                       /\ disk_writable => load_thumbnail(disk_cache', page) = appended
                       /\ \A p \in Pages \ {page} : disk_cache'[p] = disk_cache[p]
               /\ (hit.tag = "None" /\ preview.tag = "Err")
                    => /\ call'.io = <<IoLoad(page), IoRender(page)>>
                       /\ appended = Some(PlaceholderHandle)
                       /\ disk_cache' = disk_cache ]_vars

\* Thumbnail generation with any page argument interleaved with navigation,
\* rotations, flips and crops, in any order, on a portable document (the
\* backend with the TransformState, whose build has no disk cache).
InitStore ==
    Init /\ kind = "Portable" /\ ~disk_cache_enabled /\ num_pages <= MaxNavPages

\* Crops for that document: inside the page, at its far corner, outside it.
StoreCropRects == {<<0, 0, 2, 1>>, <<1, 1, 1, 1>>, <<U32Max, 0, 1, 1>>}

NextStore ==
    \/ \E page \in PageArgs : GenerateThumbnailPage(page)
    \/ GenerateThumbnails
    \/ \E page \in PageArgs : GoToPage(page)
    \/ NextPage
    \/ PrevPage
    \/ \E rotation \in Rotations : Rotate(rotation)
    \/ \E direction \in FlipDirections : Flip(direction)
    \/ \E r \in StoreCropRects : Crop(r[1], r[2], r[3], r[4])

SpecStore == InitStore /\ [][NextStore]_vars

\* C28: the thumbnail store only grows. No operation shortens it or
\* replaces an entry it already holds, it never holds more than num_pages
\* entries, and thumbnails_ready(), once true, stays true.
C28_ThumbnailStoreOnlyGrows ==
    /\ [](thumbnails_loaded(thumbnail_cache) <= num_pages)
    /\ [][ /\ thumbnails_loaded(thumbnail_cache') >= thumbnails_loaded(thumbnail_cache)
           /\ thumbnail_cache.tag = "Some" => thumbnail_cache'.tag = "Some"
           /\ \A p \in 0..(thumbnails_loaded(thumbnail_cache) - 1) :
                 get_thumbnail(thumbnail_cache', p) = get_thumbnail(thumbnail_cache, p)
           /\ thumbnails_ready(thumbnail_cache) => thumbnails_ready(thumbnail_cache')
           /\ num_pages' = num_pages ]_vars

C28_Witness ==
    /\ kind = "Portable"
    /\ thumbnails_ready(thumbnail_cache)
    /\ num_pages = MaxNavPages
    /\ call.op = "crop"
    /\ call.ret = Ok(Unit)
    /\ page_index = 1
    /\ transform.flip_h

\* C29: a crop of a portable document changes neither the page cursor nor
\* the transform, and it does not outlive the next re-render: after a rotate,
\* a flip or a page change the raster is the whole page again, at the size
\* of the full page render.
C29_PortableCropNotRetained ==
    [][ kind = "Portable" =>
          /\ call'.op = "crop" => UNCHANGED <<page_index, transform>>
          /\ ( \/ call'.op \in {"rotate", "flip"}
               \/ call'.op = "go_to_page" /\ call'.ret.tag = "Ok"
               \/ call'.op \in {"next_page", "prev_page"} /\ call'.ret = TRUE )
             => /\ rendered' = RenderOf(page_index', transform')
                /\ dimensions(rendered')
                     = dimensions(PageImage(page_index', transform'.rotation,
                                            PDF_RENDER_QUALITY_X4)) ]_vars

\* ------------------------------------------------------------------------
\* The crop view: pointer events on the selection over a raster document
\* ------------------------------------------------------------------------

\* Pointer positions inside the image: its left or top edge, 1.5 pixels in,
\* its right or bottom edge.
PointerXs == {0, 3, 2 * rendered.w}

PointerYs == {0, 3, 2 * rendered.h}

\* CropSelection::start_new_selection(x, y)
StartNewSelection(x, y) ==
    /\ selection' = CropSelection_start_new_selection(selection, x, y)
    /\ call' = Call("start_new_selection", 0, Unit, None, <<>>, 0)
    /\ UNCHANGED <<env, single_page, page_index, transform, rendered, handle,
                   thumbnail_cache, disk_cache, driver>>

\* CropSelection::start_handle_drag(handle, x, y)
StartHandleDrag(drag_handle, x, y) ==
    /\ selection' = CropSelection_start_handle_drag(selection, drag_handle, x, y)
    /\ call' = Call("start_handle_drag", 0, Unit, None, <<>>, 0)
    /\ UNCHANGED <<env, single_page, page_index, transform, rendered, handle,
                   thumbnail_cache, disk_cache, driver>>

\* CropSelection::update_drag(x, y, img_width, img_height) with the size of
\* the displayed image.
UpdateDrag(x, y) ==
    /\ selection' = CropSelection_update_drag(selection, x, y,
                                              2 * rendered.w, 2 * rendered.h)
    /\ call' = Call("update_drag", 0, Unit, None, <<>>, 0)
    /\ UNCHANGED <<env, single_page, page_index, transform, rendered, handle,
                   thumbnail_cache, disk_cache, driver>>

\* CropSelection::end_drag
EndDrag ==
    /\ selection' = CropSelection_end_drag(selection)
    /\ call' = Call("end_drag", 0, Unit, None, <<>>, 0)
    /\ UNCHANGED <<env, single_page, page_index, transform, rendered, handle,
                   thumbnail_cache, disk_cache, driver>>

\* CropSelection::reset
ResetSelection ==
    /\ selection' = CropSelection_reset(selection)
    /\ call' = Call("reset", 0, Unit, None, <<>>, 0)
    /\ UNCHANGED <<env, single_page, page_index, transform, rendered, handle,
                   thumbnail_cache, disk_cache, driver>>

NextSelection ==
    \/ \E x \in PointerXs, y \in PointerYs : StartNewSelection(x, y)
    \/ \E h \in DragHandles, x \in PointerXs, y \in PointerYs : StartHandleDrag(h, x, y)
    \/ \E x \in PointerXs, y \in PointerYs : UpdateDrag(x, y)
    \/ EndDrag
    \/ ResetSelection

InitSelection == Init /\ kind = "Raster"

\* Pointer events over a freshly opened raster image, in any order.
SpecSelection == InitSelection /\ [][NextSelection]_vars

\* C30: with every pointer position inside the image the selection region
\* stays inside the image (x >= 0, y >= 0, w >= 0, h >= 0, x + w <= W,
\* y + h <= H), every rectangle as_pixel_rect returns passes the bounds test
\* of the raster crop, and update_drag outside a drag leaves the region alone.
C30_SelectionStaysInsideImage ==
    /\ [](selection.region.tag = "Some" =>
            LET r == selection.region.val
            IN  /\ r[1] >= 0 /\ r[2] >= 0 /\ r[3] >= 0 /\ r[4] >= 0
                /\ r[1] + r[3] <= 2 * rendered.w
                /\ r[2] + r[4] <= 2 * rendered.h)
    /\ [](LET px == CropSelection_as_pixel_rect(selection)
          IN  px.tag = "Some" =>
                \A checked \in BOOLEAN :
                   crop_bounds_test(rendered, px.val[1], px.val[2], px.val[3],
                                    px.val[4], checked) = "accept")
    /\ [][(call'.op = "update_drag" /\ ~selection.is_dragging)
          => selection'.region = selection.region]_vars

====
